---- MODULE Spec2Model ----
(***************************************************************************)
(* A model of pybeast: the Simulation life-cycle state machine, the World  *)
(* tick, the Animat motion / collision response and the Population team    *)
(* rotation.  Every object of the program is a record variable whose       *)
(* fields carry the names of the Python attributes.                        *)
(*                                                                         *)
(*   sim    the Simulation object (core/simulation.py)                     *)
(*   world  the World object and the objects living in it (world.py)       *)
(*   pair   two Animats with their velocity / location vectors (animat.py) *)
(*   pop    a Population with its team iterator (population.py)            *)
(*   ga     a Population's members with its GeneticAlgorithm               *)
(*          (evolve/geneticalgorithm.py)                                   *)
(*   sense  a sensor with the objects it is shown (sensors/)               *)
(*   brain  an EvoFFNAnimat with its FeedForwardNet (control/, agents/)     *)
(*   gui    the BeastFrame with its simulation thread (gui/beastframe.py)   *)
(*   arena  the World of a running Simulation with its Groups and its      *)
(*          Population (simulation.py, world.py, population.py)            *)
(*                                                                         *)
(* Each specification drives one of the objects and holds the others at    *)
(* their idle value.                                                       *)
(***************************************************************************)
EXTENDS Integers, Sequences, FiniteSets, TLC

VARIABLES sim, world, pair, pop, ga, sense, brain, gui, arena

vars == <<sim, world, pair, pop, ga, sense, brain, gui, arena>>

(***************************************************************************)
(* Bounds of the model.                                                    *)
(***************************************************************************)
MaxRuns == 2
MaxGenerations == 2
MaxAssessments == 2
MaxTimeSteps == 2
NumSimObjects == 2
NumAnimats == 3
NumWorldObjects == 2
MaxTicks == 2
MaxMotionTicks == 2
MaxPopSize == 4
MaxTeamSize == 4
MaxPopAssessments == 3
MaxCollisions == 2

(***************************************************************************)
(* Values the objects hold while another specification runs.               *)
(***************************************************************************)
IdleSim == [pc |-> "idle"]
IdleWorld == [pc |-> "idle"]
IdlePair == [pc |-> "idle"]
IdlePop == [pc |-> "idle"]
IdleGA == [pc |-> "idle"]
IdleSense == [pc |-> "idle"]
IdleBrain == [pc |-> "idle"]
IdleGui == [pc |-> "idle"]
IdleArena == [pc |-> "idle"]

(***************************************************************************)
(* Simulation (core/simulation.py).                                        *)
(*                                                                         *)
(* sim.log is the history of the calls the Simulation makes on its         *)
(* SimObjects (<<hook, object>>) and on its World (<<call, 0>>), in call   *)
(* order; sim.returns is the history of the values Update() returned.      *)
(***************************************************************************)
TimeIncrement == 1

SimContents == [i \in 1..NumSimObjects |-> i]

\* for simObject in self.contents.values(): simObject.<hook>()
SimForEach(s, hook) ==
    [s EXCEPT !.log = @ \o [i \in 1..Len(SimContents) |-> <<hook, SimContents[i]>>]]

\* Mutant: the loop calls AddToWorld() before BeginAssessment().
SimBeginAssessmentLoop_AddFirst(s) ==
    [s EXCEPT !.log = @ \o [k \in 1..(2 * Len(SimContents)) |->
        IF k % 2 = 1 THEN <<"AddToWorld", SimContents[(k + 1) \div 2]>>
                     ELSE <<"BeginAssessment", SimContents[k \div 2]>>]]

\* The loop of BeginAssessment: BeginAssessment() then AddToWorld() per object.
SimBeginAssessmentLoop(s) ==
    [s EXCEPT !.log = @ \o [k \in 1..(2 * Len(SimContents)) |->
        IF k % 2 = 1 THEN <<"BeginAssessment", SimContents[(k + 1) \div 2]>>
                     ELSE <<"AddToWorld", SimContents[k \div 2]>>]]

SimWorldCall(s, call) == [s EXCEPT !.log = Append(@, <<call, 0>>)]

\* Mutant: BeginAssessment forgets to restart the time step counter.
SimBeginAssessment_NoTimeStepReset(s) ==
    SimWorldCall(SimBeginAssessmentLoop(s), "World.Init")

SimBeginAssessment(s) ==
    SimWorldCall(SimBeginAssessmentLoop([s EXCEPT !.timeStep = 0]), "World.Init")

SimBeginGeneration(s) ==
    SimBeginAssessment(SimForEach([s EXCEPT !.assessment = 0], "BeginGeneration"))

SimBeginRun(s) ==
    SimBeginGeneration(SimForEach([s EXCEPT !.generation = 0], "BeginRun"))

SimEndSimulation(s) ==
    [SimWorldCall(s, "World.CleanUp") EXCEPT !.complete = TRUE]

SimEndRun(s) ==
    LET s1 == SimForEach(s, "EndRun")
        s2 == [s1 EXCEPT !.Run = @ + 1]
    IN  IF s2.Run = s2.Runs THEN SimEndSimulation(s2) ELSE SimBeginRun(s2)

SimEndGeneration(s) ==
    LET s1 == SimForEach(s, "EndGeneration")
        s2 == [s1 EXCEPT !.generation = @ + 1]
    IN  IF s2.generation = s2.generations THEN SimEndRun(s2) ELSE SimBeginGeneration(s2)

SimEndAssessment(s) ==
    LET s1 == SimForEach(s, "EndAssessment")
        s2 == SimWorldCall(s1, "World.CleanUp")
        s3 == [s2 EXCEPT !.assessment = @ + 1]
    IN  IF s3.assessment = s3.assessments THEN SimEndGeneration(s3) ELSE SimBeginAssessment(s3)

\* Simulation.Update: one world tick, then EndAssessment when the time is up.
SimUpdateBody(s) ==
    LET s1 == SimWorldCall(s, "World.Update")
        s2 == [s1 EXCEPT !.timeStep = @ + s.timeIncrement]
        s3 == IF s2.timeStep = s2.timeSteps THEN SimEndAssessment(s2) ELSE s2
    IN  [s3 EXCEPT !.returns = Append(@, s3.complete)]

\* Simulation.__init__ followed by the Set* calls of a derived constructor.
SimInit ==
    \E r \in 1..MaxRuns, g \in 1..MaxGenerations, a \in 1..MaxAssessments, t \in 1..MaxTimeSteps :
        sim = [pc |-> "constructed", Runs |-> r, generations |-> g, assessments |-> a,
               timeSteps |-> t, timeIncrement |-> TimeIncrement,
               Run |-> 0, generation |-> 0, assessment |-> 0, timeStep |-> 0,
               complete |-> FALSE, log |-> <<>>, returns |-> <<>>]

\* RunSimulationWithoutRendering: Init(); BeginSimulation()
BeginSimulation ==
    /\ sim.pc = "constructed"
    /\ sim' = SimBeginRun([sim EXCEPT !.pc = "running", !.complete = FALSE, !.Run = 0])
    /\ UNCHANGED <<world, pair, pop, ga, sense, brain, gui, arena>>

\* RunSimulationWithoutRendering: while True: complete = Update(); if complete: break
Update ==
    /\ sim.pc = "running"
    /\ ~sim.complete
    /\ sim' = SimUpdateBody(sim)
    /\ UNCHANGED <<world, pair, pop, ga, sense, brain, gui, arena>>

InitSim == SimInit /\ world = IdleWorld /\ pair = IdlePair /\ pop = IdlePop
    /\ ga = IdleGA /\ sense = IdleSense
    /\ brain = IdleBrain /\ gui = IdleGui /\ arena = IdleArena

NextSim == BeginSimulation \/ Update

SpecSim == InitSim /\ [][NextSim]_vars

(***************************************************************************)
(* Claims about the Simulation.                                            *)
(***************************************************************************)
SimTotalTicks == sim.Runs * sim.generations * sim.assessments * sim.timeSteps

SimWorldUpdates == Cardinality({i \in DOMAIN sim.log : sim.log[i] = <<"World.Update", 0>>})

\* C1: with timeIncrement = 1, the k-th call of Simulation.Update() returns True
\* exactly when k = Runs*generations*assessments*timeSteps; no further call is
\* made, every call made exactly one World.Update, and the loop of
\* RunSimulationWithoutRendering has ended (complete) after that many calls.
C1_UpdateTrueExactlyAtEnd ==
    sim.pc \in {"constructed", "running"} =>
        /\ Len(sim.returns) <= SimTotalTicks
        /\ \A k \in 1..Len(sim.returns) : sim.returns[k] = (k = SimTotalTicks)
        /\ SimWorldUpdates = Len(sim.returns)
        /\ sim.complete = (Len(sim.returns) = SimTotalTicks)

C1_Witness ==
    /\ sim.pc = "running"
    /\ sim.complete
    /\ sim.Runs = 2 /\ sim.generations = 2 /\ sim.assessments = 2 /\ sim.timeSteps = 2
    /\ Len(sim.returns) = 16
    /\ sim.returns[16] = TRUE

\* The calls one SimObject sees, in order: its own hooks and the world ticks.
HookTrace(o) ==
    LET Seen(e) == e[2] = o \/ e = <<"World.Update", 0>>
    IN  SelectSeq(sim.log, Seen)

\* Lengths of one assessment, one generation and one run in a properly nested
\* trace: BeginAssessment, AddToWorld, timeSteps ticks, EndAssessment; the
\* generation and the run add their own Begin and End hook.
AssessmentLen == sim.timeSteps + 3
GenerationLen == sim.assessments * AssessmentLen + 2
RunLen == sim.generations * GenerationLen + 2

\* The k-th call (k >= 1) of the properly nested trace.
NestedHook(k) ==
    LET kr == (k - 1) % RunLen
        kg == (kr - 1) % GenerationLen
        ka == (kg - 1) % AssessmentLen
    IN  IF kr = 0 THEN "BeginRun"
        ELSE IF kr = RunLen - 1 THEN "EndRun"
        ELSE IF kg = 0 THEN "BeginGeneration"
        ELSE IF kg = GenerationLen - 1 THEN "EndGeneration"
        ELSE IF ka = 0 THEN "BeginAssessment"
        ELSE IF ka = 1 THEN "AddToWorld"
        ELSE IF ka = AssessmentLen - 1 THEN "EndAssessment"
        ELSE "World.Update"

\* C2: for every SimObject the hooks come properly nested: BeginRun, per
\* generation BeginGeneration, per assessment BeginAssessment, AddToWorld, the
\* timeSteps world ticks and EndAssessment, EndGeneration after the last
\* assessment, EndRun after the last generation; each Begin hook is followed by
\* its End hook before the next Begin hook of its level, and when the
\* simulation is complete every one of the Runs runs has ended.
C2_HooksProperlyNested ==
    sim.pc \in {"constructed", "running"} =>
        \A o \in 1..NumSimObjects :
            /\ Len(HookTrace(o)) <= sim.Runs * RunLen
            /\ \A k \in 1..Len(HookTrace(o)) : HookTrace(o)[k][1] = NestedHook(k)
            /\ sim.complete = (Len(HookTrace(o)) = sim.Runs * RunLen)

C2_Witness ==
    /\ sim.pc = "running"
    /\ sim.complete
    /\ sim.Runs = 2 /\ sim.generations = 2 /\ sim.assessments = 2
    /\ HookTrace(NumSimObjects)[Len(HookTrace(NumSimObjects))] = <<"EndRun", NumSimObjects>>
    /\ Cardinality({i \in DOMAIN sim.log : sim.log[i] = <<"EndGeneration", NumSimObjects>>}) = 4

(***************************************************************************)
(* World (core/world/world.py) and the objects in it.                      *)
(*                                                                         *)
(* Objects 1..NumAnimats are Animats, the following NumWorldObjects are    *)
(* generic WorldObjects.  world.dead is the dead attribute of each object. *)
(* World.Update is a sequence of steps, one per call it makes on an        *)
(* object; the code of the objects (Control, Update, OnCollision) may call *)
(* World.Add and SetDead from inside such a call.                          *)
(*                                                                         *)
(* History of the current tick: world.calls are the calls made, in order   *)
(* (Update of an object, Reset of the evaluation function of a sensor of   *)
(* an animat, Interact of an animat with another object);                  *)
(* world.added are the objects passed to Add during the tick;              *)
(* world.deadAtUpdateEnd the objects found dead when the update phase      *)
(* ended, world.removedDead those of all ticks so far.                     *)
(***************************************************************************)
AnimatIds == 1..NumAnimats
WorldObjectIds == (NumAnimats + 1)..(NumAnimats + NumWorldObjects)
ObjectIds == AnimatIds \cup WorldObjectIds

\* isinstance(r, Animat); the members of a Population (ids above ObjectIds)
\* are Animats too
IsAnimat(r) == r \in AnimatIds \/ r > NumAnimats + NumWorldObjects

\* The sensors of an Animat (Animat.sensors), by name.
SensorNames == {"left", "right"}

Range(seq) == {seq[k] : k \in DOMAIN seq}

\* Objects constructed so far are those some call has handed to the World.
WorldKnown(w) ==
    Range(w.animats) \cup Range(w.worldobjects) \cup Range(w.animatQueue)
        \cup Range(w.worldobjectQueue) \cup w.removedDead

\* Mutant: Add inserts at once, whether or not an Update is in progress.
WorldAdd_NoQueue(w, r) ==
    IF IsAnimat(r)
    THEN [w EXCEPT !.animats = Append(@, r), !.monitor = Append(@, r)]
    ELSE [w EXCEPT !.worldobjects = Append(@, r)]

\* World.Add(r)
WorldAdd(w, r) ==
    IF IsAnimat(r)
    THEN IF ~w.updateInProgress
         THEN [w EXCEPT !.animats = Append(@, r), !.monitor = Append(@, r)]
         ELSE [w EXCEPT !.animatQueue = Append(@, r), !.monitor = Append(@, r)]
    ELSE IF ~w.updateInProgress
         THEN [w EXCEPT !.worldobjects = Append(@, r)]
         ELSE [w EXCEPT !.worldobjectQueue = Append(@, r)]

\* What the code of an object may do to the World while it is being called:
\* nothing, construct an object and Add it, or SetDead(d) on an object it holds.
\* New objects are taken in the order of their ids.
FreshObjects(w) ==
    LET newA == AnimatIds \ WorldKnown(w)
        newW == WorldObjectIds \ WorldKnown(w)
    IN  {o \in newA : \A x \in newA : o <= x} \cup {o \in newW : \A x \in newW : o <= x}

HookAdd(w, r) == [WorldAdd(w, r) EXCEPT !.added = @ \cup {r}]

HookSetDead(w, o, d) == [w EXCEPT !.dead[o] = d]

HookEffects(w, targets) ==
    {w} \cup {HookAdd(w, r) : r \in FreshObjects(w)}
        \cup {HookSetDead(w, o, d) : o \in targets, d \in BOOLEAN}

\* The calls World.Update makes, as they are recorded in world.calls.
UpdateCall(o) == [op |-> "Update", self |-> o, other |-> 0, sensor |-> ""]
ResetCall(a, s) == [op |-> "Reset", self |-> a, other |-> 0, sensor |-> s]
InteractCall(a, o) == [op |-> "Interact", self |-> a, other |-> o, sensor |-> ""]

WorldCall(w, e) == [w EXCEPT !.calls = Append(@, e)]

\* Mutant: Sensor.Update leaves the evaluation function as it is.
SensorUpdates_NoReset(w, a) == w

\* for sensor in self.sensors.values(): sensor.Update()  (EvalFunc.Reset())
SensorUpdates(w, a) ==
    [w EXCEPT !.calls = @ \o <<ResetCall(a, "left"), ResetCall(a, "right")>>]

\* World.__init__
WorldInit ==
    world = [pc |-> "idle", animats |-> <<>>, animatQueue |-> <<>>,
             worldobjects |-> <<>>, worldobjectQueue |-> <<>>, monitor |-> <<>>,
             updateInProgress |-> FALSE,
             dead |-> [o \in ObjectIds |-> FALSE],
             i |-> 1, j |-> 1, ticks |-> 0,
             calls |-> <<>>, added |-> {}, deadAtUpdateEnd |-> {}, removedDead |-> {}]

\* World.Add called between two ticks.
Add ==
    /\ world.pc = "idle"
    /\ \E r \in FreshObjects(world) : world' = WorldAdd(world, r)
    /\ UNCHANGED <<sim, pair, pop, ga, sense, brain, gui, arena>>

\* World.Update: self.updateInProgress = True; self.UpdateMouse()
UpdateBegin ==
    /\ world.pc = "idle"
    /\ world.ticks < MaxTicks
    /\ world' = [world EXCEPT !.pc = "updateObjects", !.updateInProgress = TRUE, !.i = 1,
                              !.calls = <<>>, !.added = {}, !.deadAtUpdateEnd = {}]
    /\ UNCHANGED <<sim, pair, pop, ga, sense, brain, gui, arena>>

\* for wo in self.worldobjects: wo.Update()
UpdateWorldObject ==
    /\ world.pc = "updateObjects"
    /\ world.i <= Len(world.worldobjects)
    /\ LET wo == world.worldobjects[world.i]
           w1 == WorldCall([world EXCEPT !.i = @ + 1], UpdateCall(wo))
       IN  world' \in HookEffects(w1, {wo})
    /\ UNCHANGED <<sim, pair, pop, ga, sense, brain, gui, arena>>

UpdateWorldObjectsDone ==
    /\ world.pc = "updateObjects"
    /\ world.i > Len(world.worldobjects)
    /\ world' = [world EXCEPT !.pc = "updateAnimats", !.i = 1]
    /\ UNCHANGED <<sim, pair, pop, ga, sense, brain, gui, arena>>

\* for a in self.animats: a.Update()   (Animat.Update: Control(), the motion,
\* the sensors' Update, the trail)
UpdateAnimat ==
    /\ world.pc = "updateAnimats"
    /\ world.i <= Len(world.animats)
    /\ LET a == world.animats[world.i]
           w1 == WorldCall([world EXCEPT !.i = @ + 1], UpdateCall(a))
       IN  \E w2 \in HookEffects(w1, {a}) : world' = SensorUpdates(w2, a)
    /\ UNCHANGED <<sim, pair, pop, ga, sense, brain, gui, arena>>

UpdateAnimatsDone ==
    /\ world.pc = "updateAnimats"
    /\ world.i > Len(world.animats)
    /\ world' = [world EXCEPT !.pc = "removeDead"]
    /\ UNCHANGED <<sim, pair, pop, ga, sense, brain, gui, arena>>

\* Mutant: only the dead generic objects are removed, dead animats stay.
WorldRemoveDead_ObjectsOnly(w) ==
    LET Alive(o) == ~w.dead[o]
    IN  [w EXCEPT !.worldobjects = SelectSeq(@, Alive)]

\* Remove dead world objects and animats.
WorldRemoveDead(w) ==
    LET Alive(o) == ~w.dead[o]
    IN  [w EXCEPT !.worldobjects = SelectSeq(@, Alive), !.animats = SelectSeq(@, Alive)]

RemoveDead ==
    /\ world.pc = "removeDead"
    /\ LET found == {o \in Range(world.animats) \cup Range(world.worldobjects) : world.dead[o]}
       IN  world' = [WorldRemoveDead(world) EXCEPT !.pc = "interactObjects", !.i = 1, !.j = 1,
                         !.deadAtUpdateEnd = found, !.removedDead = @ \cup found]
    /\ UNCHANGED <<sim, pair, pop, ga, sense, brain, gui, arena>>

\* for wo in self.worldobjects: for animat in self.animats: animat.Interact(wo)
InteractWorldObject ==
    /\ world.pc = "interactObjects"
    /\ world.animats # <<>>
    /\ world.i <= Len(world.worldobjects)
    /\ LET wo == world.worldobjects[world.i]
           a == world.animats[world.j]
           last == world.j = Len(world.animats)
           w1 == [world EXCEPT !.j = IF last THEN 1 ELSE @ + 1,
                               !.i = IF last THEN @ + 1 ELSE @]
       IN  world' \in HookEffects(WorldCall(w1, InteractCall(a, wo)), {a, wo})
    /\ UNCHANGED <<sim, pair, pop, ga, sense, brain, gui, arena>>

InteractWorldObjectsDone ==
    /\ world.pc = "interactObjects"
    /\ world.animats = <<>> \/ world.i > Len(world.worldobjects)
    /\ world' = [world EXCEPT !.pc = "interactAnimats", !.i = 1, !.j = 1]
    /\ UNCHANGED <<sim, pair, pop, ga, sense, brain, gui, arena>>

\* Mutant: the inner loop has lost its test j != i.
InteractsWith_Self(i, j) == TRUE

\* if j != i
InteractsWith(i, j) == j # i

\* for i, animat1 in enumerate(self.animats):
\*     for j, animat2 in enumerate(self.animats):
\*         if j != i: animat1.Interact(animat2)
InteractAnimat ==
    /\ world.pc = "interactAnimats"
    /\ world.animats # <<>>
    /\ world.i <= Len(world.animats)
    /\ LET a1 == world.animats[world.i]
           a2 == world.animats[world.j]
           last == world.j = Len(world.animats)
           w1 == [world EXCEPT !.j = IF last THEN 1 ELSE @ + 1,
                               !.i = IF last THEN @ + 1 ELSE @]
       IN  IF InteractsWith(world.i, world.j)
           THEN world' \in HookEffects(WorldCall(w1, InteractCall(a1, a2)), {a1, a2})
           ELSE world' = w1
    /\ UNCHANGED <<sim, pair, pop, ga, sense, brain, gui, arena>>

\* World.UpdateQueues
WorldUpdateQueues(w) ==
    [w EXCEPT !.animats = @ \o w.animatQueue, !.animatQueue = <<>>,
              !.worldobjects = @ \o w.worldobjectQueue, !.worldobjectQueue = <<>>]

\* self.collisions.Update(); self.updateInProgress = False; self.UpdateQueues()
UpdateEnd ==
    /\ world.pc = "interactAnimats"
    /\ world.animats = <<>> \/ world.i > Len(world.animats)
    /\ world' = WorldUpdateQueues([world EXCEPT !.pc = "idle", !.updateInProgress = FALSE,
                                                !.ticks = @ + 1])
    /\ UNCHANGED <<sim, pair, pop, ga, sense, brain, gui, arena>>

InitWorld == WorldInit /\ sim = IdleSim /\ pair = IdlePair /\ pop = IdlePop
    /\ ga = IdleGA /\ sense = IdleSense
    /\ brain = IdleBrain /\ gui = IdleGui /\ arena = IdleArena

NextWorld ==
    \/ Add
    \/ UpdateBegin
    \/ UpdateWorldObject
    \/ UpdateWorldObjectsDone
    \/ UpdateAnimat
    \/ UpdateAnimatsDone
    \/ RemoveDead
    \/ InteractWorldObject
    \/ InteractWorldObjectsDone
    \/ InteractAnimat
    \/ UpdateEnd

SpecWorld == InitWorld /\ [][NextWorld]_vars

CallCount(e) == Cardinality({k \in DOMAIN world.calls : world.calls[k] = e})

OccursIn(seq, o) == Cardinality({k \in DOMAIN seq : seq[k] = o})

Called(o) == \E k \in DOMAIN world.calls : world.calls[k].self = o \/ world.calls[k].other = o

InteractCalls == {k \in DOMAIN world.calls : world.calls[k].op = "Interact"}

\* C3: an object passed to World.Add while a World.Update is in progress is
\* queued: as long as the Update runs it is in neither World.animats nor
\* World.worldobjects, it is once in the queue of its kind, and no Update or
\* Interact call of the tick involves it; when the Update has returned, both
\* queues are empty and the object is exactly once in the list of its kind
\* (and not in the other list).
C3_AddDuringUpdateIsQueued ==
    /\ world.updateInProgress =>
          \A r \in world.added :
             /\ r \notin Range(world.animats) \cup Range(world.worldobjects)
             /\ OccursIn(world.animatQueue, r) = (IF IsAnimat(r) THEN 1 ELSE 0)
             /\ OccursIn(world.worldobjectQueue, r) = (IF IsAnimat(r) THEN 0 ELSE 1)
             /\ ~Called(r)
    /\ ~world.updateInProgress =>
          /\ world.animatQueue = <<>>
          /\ world.worldobjectQueue = <<>>
          /\ \A r \in world.added :
                /\ OccursIn(world.animats, r) = (IF IsAnimat(r) THEN 1 ELSE 0)
                /\ OccursIn(world.worldobjects, r) = (IF IsAnimat(r) THEN 0 ELSE 1)
                /\ ~Called(r)

\* An Update has returned after an animat and a generic object were added
\* during it, one of them during the interaction phase.
C3_Witness ==
    /\ world.pc = "idle"
    /\ ~world.updateInProgress
    /\ \E a \in AnimatIds, o \in WorldObjectIds : {a, o} \subseteq world.added
    /\ InteractCalls # {}
    /\ Len(world.animats) >= 2

\* C4: in every World.Update the evaluation function of each sensor of each
\* animat in the world is Reset exactly once, every Reset comes before the
\* first Interact call of the tick, and none comes after it.
C4_SensorsResetOncePerTick ==
    /\ \A a \in AnimatIds, s \in SensorNames : CallCount(ResetCall(a, s)) <= 1
    /\ \A k \in DOMAIN world.calls : \A m \in InteractCalls :
          world.calls[k].op = "Reset" => k < m
    /\ world.pc \in {"removeDead", "interactObjects", "interactAnimats"} =>
          \A a \in Range(world.animats) \cup (world.deadAtUpdateEnd \cap AnimatIds) :
             \A s \in SensorNames : CallCount(ResetCall(a, s)) = 1

\* The second tick is in its interaction phase: two animats have interacted,
\* each after the Reset of its sensors in this tick.
C4_Witness ==
    /\ world.ticks = 1
    /\ world.pc = "interactAnimats"
    /\ Len(world.animats) >= 2
    /\ \E m \in InteractCalls : IsAnimat(world.calls[m].other)
    /\ CallCount(ResetCall(world.animats[2], "right")) = 1

InteractionPhaseOver ==
    /\ world.pc = "interactAnimats"
    /\ world.animats = <<>> \/ world.i > Len(world.animats)

\* C5: when the interaction phase of a World.Update is over, a.Interact(w)
\* has been called exactly once for every animat a and generic object w in
\* the world and a.Interact(b) exactly once for every ordered pair of
\* distinct animats, and no other Interact call was made; at no moment is
\* an animat passed to its own Interact.
C5_InteractOncePerPair ==
    /\ \A k \in InteractCalls :
          /\ world.calls[k].self # world.calls[k].other
          /\ CallCount(world.calls[k]) = 1
    /\ InteractionPhaseOver =>
          /\ \A a \in Range(world.animats) :
                \A o \in (Range(world.animats) \ {a}) \cup Range(world.worldobjects) :
                   CallCount(InteractCall(a, o)) = 1
          /\ Cardinality(InteractCalls) =
                Len(world.animats) * (Len(world.worldobjects) + Len(world.animats) - 1)

\* The interaction phase of a tick with three animats and two generic
\* objects is over.
C5_Witness ==
    /\ InteractionPhaseOver
    /\ Len(world.animats) = 3
    /\ Len(world.worldobjects) = 2
    /\ Cardinality(InteractCalls) = 12

\* C6: an object whose dead flag is set when the update phase of a tick ends
\* is out of World.worldobjects and World.animats before the first Interact
\* call of that tick, and no Interact call of that tick or of a later tick
\* involves it.
C6_DeadRemovedBeforeInteract ==
    /\ world.pc \in {"interactObjects", "interactAnimats", "idle"} =>
          world.removedDead \cap (Range(world.animats) \cup Range(world.worldobjects)) = {}
    /\ world.deadAtUpdateEnd \subseteq world.removedDead
    /\ \A k \in InteractCalls :
          /\ world.calls[k].self \notin world.removedDead
          /\ world.calls[k].other \notin world.removedDead

\* The second tick has made Interact calls after an animat was found dead at
\* the end of its update phase; another object was found dead in the first
\* tick.
C6_Witness ==
    /\ world.ticks = 1
    /\ world.pc = "interactAnimats"
    /\ world.deadAtUpdateEnd \cap AnimatIds # {}
    /\ world.removedDead # world.deadAtUpdateEnd
    /\ InteractCalls # {}

(***************************************************************************)
(* Motion and collision of two Animats (core/agents/animat.py).            *)
(*                                                                         *)
(* pair holds two Animats in one World and no other object, so each        *)
(* World.Update is animat 1's Update, animat 2's Update, then              *)
(* animat1.Interact(animat2) and animat2.Interact(animat1).                *)
(*                                                                         *)
(* Vectors are <<x, y>>.  Lengths and speeds are kept in units of 1/Unit,  *)
(* so that the halvings of the drag and of the averaging are exact; both   *)
(* animats start on one horizontal line with orientation 0 and equal       *)
(* controls left = right (no turn), so every vector whose length is taken  *)
(* lies on an axis and its length is exact as well (MotionExact).          *)
(*                                                                         *)
(* pair.sharedVelocity: the velocity attributes of both animats are one    *)
(* Vector2D object (SetVelocity stores the reference it is given, and      *)
(* Update changes the velocity in place).                                  *)
(* pair.collision: what the last step did, if it was an Interact that      *)
(* handled a collision of two solid animats.                               *)
(* pair.touched, pair.onCollision, pair.markers: in the current tick,      *)
(* whether an Interact found the animats touching, how often each          *)
(* animat's OnCollision(other) was called and how many collision markers   *)
(* were added.                                                             *)
(***************************************************************************)
ANIMAT_RADIUS == 5
ANIMAT_MAX_SPEED == 100
ANIMAT_MIN_SPEED == -50
ANIMAT_DRAG == 50
WORLD_WIDTH == 800
WORLD_HEIGHT == 600

\* At most four halvings of a velocity in a tick: two Updates, two Interacts.
Unit == 2 ^ (4 * MaxMotionTicks)

\* Constructor arguments of the two animats.
MaxSpeeds == {ANIMAT_MAX_SPEED, 25}
StartSeparations == {0, 4, 10, 30}
StartLocation == <<400, 300>>
TimeStep == 1
\* Values of controls["left"] = controls["right"] set by Control().
ControlValues == {0, 1}

Abs(n) == IF n < 0 THEN -n ELSE n
Sign(n) == IF n < 0 THEN -1 ELSE IF n > 0 THEN 1 ELSE 0

VAdd(a, b) == <<a[1] + b[1], a[2] + b[2]>>
VSub(a, b) == <<a[1] - b[1], a[2] - b[2]>>
VMul(a, n) == <<a[1] * n, a[2] * n>>

\* Vector2D.GetLength, for a vector on an axis.
GetLength(v) == IF v[2] = 0 THEN Abs(v[1]) ELSE Abs(v[2])

OnAxis(v) == v[1] = 0 \/ v[2] = 0

\* Vector2D.GetReciprocal
GetReciprocal(v) == <<-v[1], -v[2]>>

\* Vector2D.GetNormalized (a vector of length 1, not in units of 1/Unit)
GetNormalized(v) == IF GetLength(v) # 0 THEN <<Sign(v[1]), Sign(v[2])>> ELSE <<0, 1>>

\* Vector2D.SetLength: Normalize(), then *= l
SetLength(v, l) == IF GetLength(v) # 0 THEN VMul(<<Sign(v[1]), Sign(v[2])>>, l) ELSE v

\* The four while loops of Animat.Update (toroidal world).
Wrap(loc) == <<loc[1] % (WORLD_WIDTH * Unit), loc[2] % (WORLD_HEIGHT * Unit)>>

Other(k) == 3 - k

\* In-place change of animat k's velocity object.
MutateVelocity(p, k, v) ==
    IF p.sharedVelocity
    THEN [p EXCEPT !.velocity = <<v, v>>]
    ELSE [p EXCEPT !.velocity[k] = v]

\* Animat.Update of animat k with controls left = right = c.
AnimatUpdateBody(p, k, c) ==
    LET maxSpeed == p.maxSpeed[k]
        minSpeed == p.minSpeed[k]
        thrust == ((maxSpeed - minSpeed) * c + minSpeed) * Unit
        v1 == VAdd(p.velocity[k], <<thrust, 0>>)
        drag == <<(v1[1] * ANIMAT_DRAG) \div maxSpeed, (v1[2] * ANIMAT_DRAG) \div maxSpeed>>
        v2 == IF maxSpeed > 0 THEN VSub(v1, drag) ELSE v1
        v3 == IF GetLength(v2) > maxSpeed * Unit THEN SetLength(v2, maxSpeed * Unit) ELSE v2
        p1 == MutateVelocity(p, k, v3)
    IN  [p1 EXCEPT !.location[k] = Wrap(VAdd(@, VMul(v3, TimeStep))),
                   !.exact = @ /\ (v1[1] * ANIMAT_DRAG) % maxSpeed = 0
                               /\ (v1[2] * ANIMAT_DRAG) % maxSpeed = 0 /\ OnAxis(v2),
                   !.collision = [handled |-> FALSE]]

\* Animat.IsTouching(other), both circular.
IsTouching(p, k) ==
    GetLength(VSub(p.location[Other(k)], p.location[k])) <= (p.radius[1] + p.radius[2]) * Unit

\* Animat k's Interact(other) for an Animat other.
AnimatInteractBody(p, k) ==
    LET o == Other(k)
        sum == VAdd(p.velocity[k], p.velocity[o])
        averageVelocity == <<sum[1] \div 2, sum[2] \div 2>>
        vecToOther == VSub(p.location[o], p.location[k])
        minDistance == (p.radius[k] + p.radius[o]) * Unit
        push == minDistance - GetLength(vecToOther)
    IN  IF IsTouching(p, k) /\ p.solid[k] /\ p.solid[o]
        THEN [p EXCEPT !.velocity = <<averageVelocity, averageVelocity>>,
                       !.sharedVelocity = TRUE,
                       !.location[k] = VAdd(@, VMul(GetNormalized(GetReciprocal(vecToOther)), push)),
                       !.location[o] = VAdd(@, VMul(GetNormalized(vecToOther), push)),
                       !.exact = @ /\ sum[1] % 2 = 0 /\ sum[2] % 2 = 0 /\ OnAxis(vecToOther),
                       !.collision = [handled |-> TRUE, self |-> k,
                                      distance |-> GetLength(vecToOther),
                                      velocities |-> p.velocity]]
        ELSE [p EXCEPT !.collision = [handled |-> FALSE]]

\* The end of Animat k's Interact(other) when IsTouching(other) holds:
\* self.OnCollision(other); other.OnCollision(self);
\* self.myWorld.AddCollision(self.collisionPoint)
CollisionHooks(p, k) ==
    [p EXCEPT !.touched = TRUE,
              !.onCollision = <<@[1] + 1, @[2] + 1>>,
              !.markers = @ + 1]

\* Animat k's Interact(other): the response, then the hooks
AnimatInteractWhole(p, k) ==
    IF IsTouching(p, k) THEN CollisionHooks(AnimatInteractBody(p, k), k)
    ELSE AnimatInteractBody(p, k)

\* Two animats after Animat.__init__ and Init.
PairInit ==
    \E m1 \in MaxSpeeds, m2 \in MaxSpeeds, s1 \in BOOLEAN, s2 \in BOOLEAN,
       sep \in StartSeparations :
       pair = [pc |-> "update1", ticks |-> 0,
               location |-> <<VMul(StartLocation, Unit),
                              VMul(VAdd(StartLocation, <<sep, 0>>), Unit)>>,
               velocity |-> <<<<Unit, 0>>, <<Unit, 0>>>>,
               sharedVelocity |-> FALSE,
               maxSpeed |-> <<m1, m2>>,
               minSpeed |-> <<ANIMAT_MIN_SPEED, ANIMAT_MIN_SPEED>>,
               radius |-> <<ANIMAT_RADIUS, ANIMAT_RADIUS>>,
               solid |-> <<s1, s2>>,
               exact |-> TRUE,
               collision |-> [handled |-> FALSE],
               touched |-> FALSE, onCollision |-> <<0, 0>>, markers |-> 0]

\* for a in self.animats: a.Update()
AnimatUpdate ==
    /\ \E k \in {1, 2}, c \in ControlValues :
          /\ pair.pc = (IF k = 1 THEN "update1" ELSE "update2")
          /\ pair.ticks < MaxMotionTicks
          /\ pair' = [AnimatUpdateBody(pair, k, c) EXCEPT
                         !.pc = IF k = 1 THEN "update2" ELSE "interact12",
                         !.touched = IF k = 1 THEN FALSE ELSE @,
                         !.onCollision = IF k = 1 THEN <<0, 0>> ELSE @,
                         !.markers = IF k = 1 THEN 0 ELSE @]
    /\ UNCHANGED <<sim, world, pop, ga, sense, brain, gui, arena>>

\* animat1.Interact(animat2) for all ordered pairs
AnimatInteract ==
    /\ \E k \in {1, 2} :
          /\ pair.pc = (IF k = 1 THEN "interact12" ELSE "interact21")
          /\ pair' = [AnimatInteractWhole(pair, k) EXCEPT
                         !.pc = IF k = 1 THEN "interact21" ELSE "update1",
                         !.ticks = IF k = 1 THEN @ ELSE @ + 1]
    /\ UNCHANGED <<sim, world, pop, ga, sense, brain, gui, arena>>

InitMotion == PairInit /\ sim = IdleSim /\ world = IdleWorld /\ pop = IdlePop
    /\ ga = IdleGA /\ sense = IdleSense
    /\ brain = IdleBrain /\ gui = IdleGui /\ arena = IdleArena

NextMotion == AnimatUpdate \/ AnimatInteract

SpecMotion == InitMotion /\ [][NextMotion]_vars

\* The arithmetic of the model loses nothing: every division is exact and
\* every vector whose length is taken lies on an axis.
MotionExact ==
    /\ pair.exact
    /\ \A k \in {1, 2} : pair.velocity[k][2] = 0
    /\ pair.location[1][2] = pair.location[2][2]

Speed(k) == GetLength(pair.velocity[k])

\* C7: the speed of an animat does not exceed its maxSpeed: after its own
\* Animat.Update, and for both animats when the interaction phase of a tick
\* is over.
C7_SpeedWithinMaxSpeed ==
    /\ pair.pc = "update2" => Speed(1) <= pair.maxSpeed[1] * Unit
    /\ pair.pc = "interact12" => Speed(2) <= pair.maxSpeed[2] * Unit
    /\ (pair.pc = "update1" /\ pair.ticks > 0) =>
          \A k \in {1, 2} : Speed(k) <= pair.maxSpeed[k] * Unit

\* C8: when Interact has handled the collision of two solid animats at
\* centre distance 0 <= d <= r1 + r2, both have the average of the two
\* velocities and their centres are exactly r1 + r2 apart.
C8_CollisionEndsExactlyApart ==
    pair.collision.handled =>
       LET before == pair.collision.velocities
       IN  /\ \A k \in {1, 2} : VMul(pair.velocity[k], 2) = VAdd(before[1], before[2])
           /\ GetLength(VSub(pair.location[2], pair.location[1]))
                 = (pair.radius[1] + pair.radius[2]) * Unit

(***************************************************************************)
(* Population (core/evolve/population.py): teams and fitness scores in one *)
(* generation.                                                             *)
(*                                                                         *)
(* The members are the objects 1..popSize, pop.members is the list of      *)
(* them.  pop.current is the list iterator of BeginGeneration: None, or    *)
(* the number of members it has handed out.  pop.fitness[m] is what        *)
(* member m's GetFitness() returns (the cheesesFound of an EvoMouse),      *)
(* pop.scores[m] its GAFitnessScores.                                      *)
(*                                                                         *)
(* History: pop.j counts the BeginAssessment calls; pop.before is the      *)
(* fitness and the scores of every member when the last EndAssessment was  *)
(* called.                                                                 *)
(***************************************************************************)
None == -1

\* Mutant: at the end of the list the iterator is not started again.
PopNext_NoRestart(p) ==
    IF p.current < Len(p.members)
    THEN [p EXCEPT !.team = Append(@, p.members[p.current + 1]), !.current = @ + 1]
    ELSE [p EXCEPT !.team = Append(@, p.members[Len(p.members)])]

\* try: self.team.append(next(self.current))
\* except StopIteration: self.current = iter(self.members); self.team.append(next(self.current))
PopNext(p) ==
    IF p.current < Len(p.members)
    THEN [p EXCEPT !.team = Append(@, p.members[p.current + 1]), !.current = @ + 1]
    ELSE [p EXCEPT !.team = Append(@, p.members[1]), !.current = 1]

RECURSIVE PopDraw(_, _)
\* for _ in range(self.teamsize): ...
PopDraw(p, n) == IF n <= 0 THEN p ELSE PopDraw(PopNext(p), n - 1)

\* Population.BeginAssessment (numClones = 0: no clone is added)
PopBeginAssessment(p) ==
    IF p.teamsize # -1
    THEN LET p1 == [p EXCEPT !.team = <<>>,
                             !.current = IF @ = None THEN 0 ELSE @]
         IN  PopDraw(p1, p.teamsize)
    ELSE p

\* Mutant: the member is reset before its fitness is stored.
PopStoreAndReset_ResetFirst(p, m) ==
    [p EXCEPT !.scores[m] = Append(@, 0), !.fitness[m] = 0]

\* member.StoreFitness(); member.Reset()
PopStoreAndReset(p, m) ==
    [p EXCEPT !.scores[m] = Append(@, p.fitness[m]), !.fitness[m] = 0]

RECURSIVE PopForEach(_, _, _)
PopForEach(p, seq, i) ==
    IF i > Len(seq) THEN p ELSE PopForEach(PopStoreAndReset(p, seq[i]), seq, i + 1)

\* Population.EndAssessment
PopEndAssessment(p) ==
    IF p.teamsize # -1
    THEN PopForEach(p, p.team, 1)
    ELSE PopForEach(p, p.members, 1)

\* The members that are in the world during an assessment (Population.AddToWorld).
PopAssessed(p) == IF p.teamsize # -1 THEN Range(p.team) ELSE Range(p.members)

\* Population.__init__
PopInit ==
    \E n \in 1..MaxPopSize, s \in {-1} \cup (0..MaxTeamSize) :
       pop = [pc |-> "constructed", N |-> n, members |-> [k \in 1..n |-> k],
              teamsize |-> s, numClones |-> 0, current |-> None, team |-> <<>>,
              fitness |-> [m \in 1..n |-> 0], scores |-> [m \in 1..n |-> <<>>],
              j |-> 0, collisions |-> 0,
              before |-> [fitness |-> [m \in 1..n |-> 0], scores |-> [m \in 1..n |-> <<>>]]]

\* Population.BeginGeneration
PopulationBeginGeneration ==
    /\ pop.pc = "constructed"
    /\ pop' = [pop EXCEPT !.pc = "generation", !.current = 0]
    /\ UNCHANGED <<sim, world, pair, ga, sense, brain, gui, arena>>

PopulationBeginAssessment ==
    /\ pop.pc \in {"constructed", "generation"}
    /\ pop.j < MaxPopAssessments
    /\ pop' = [PopBeginAssessment(pop) EXCEPT !.pc = "assessment", !.j = @ + 1]
    /\ UNCHANGED <<sim, world, pair, ga, sense, brain, gui, arena>>

\* EvoMouse.OnCollision of a member in the world: self.cheesesFound += 1
MemberOnCollision ==
    /\ pop.pc = "assessment"
    /\ pop.collisions < MaxCollisions
    /\ \E m \in PopAssessed(pop) :
          pop' = [pop EXCEPT !.fitness[m] = @ + 1, !.collisions = @ + 1]
    /\ UNCHANGED <<sim, world, pair, ga, sense, brain, gui, arena>>

PopulationEndAssessment ==
    /\ pop.pc = "assessment"
    /\ pop' = [PopEndAssessment(pop) EXCEPT
                  !.pc = "generation",
                  !.before = [fitness |-> pop.fitness, scores |-> pop.scores]]
    /\ UNCHANGED <<sim, world, pair, ga, sense, brain, gui, arena>>

InitPop == PopInit /\ sim = IdleSim /\ world = IdleWorld /\ pair = IdlePair
    /\ ga = IdleGA /\ sense = IdleSense
    /\ brain = IdleBrain /\ gui = IdleGui /\ arena = IdleArena

NextPop ==
    \/ PopulationBeginGeneration
    \/ PopulationBeginAssessment
    \/ MemberOnCollision
    \/ PopulationEndAssessment

SpecPop == InitPop /\ [][NextPop]_vars

\* C9: in team mode the j-th BeginAssessment (j = 0, 1, ...) makes team the
\* teamsize members members[(j * teamsize + i) mod popSize], i = 0 ..
\* teamsize - 1, whether or not teamsize divides popSize.
C9_TeamIsNextMembersRoundRobin ==
    (pop.pc = "assessment" /\ pop.teamsize # -1) =>
       /\ Len(pop.team) = pop.teamsize
       /\ \A i \in 0..(pop.teamsize - 1) :
             pop.team[i + 1] = pop.members[(((pop.j - 1) * pop.teamsize + i) % pop.N) + 1]

\* The second assessment of a population of three in teams of two: the team
\* is the last member followed by the first.
C9_Witness ==
    /\ pop.pc = "assessment"
    /\ pop.N = 3
    /\ pop.teamsize = 2
    /\ pop.j = 2
    /\ pop.team = <<3, 1>>

EndAssessmentDone == pop.pc = "generation" /\ pop.j > 0

\* What one EndAssessment does to the members.
OneScoreEach ==
    \A m \in Range(pop.members) :
       IF m \in PopAssessed(pop)
       THEN /\ pop.scores[m] = Append(pop.before.scores[m], pop.before.fitness[m])
            /\ pop.fitness[m] = 0
       ELSE /\ pop.scores[m] = pop.before.scores[m]
            /\ pop.fitness[m] = pop.before.fitness[m]

\* The assessments made so far are the first in which every member has been
\* assessed.
FullRotation ==
    \/ pop.teamsize = -1 /\ pop.j = 1
    \/ /\ pop.teamsize > 0
       /\ (pop.j - 1) * pop.teamsize < pop.N
       /\ pop.j * pop.teamsize >= pop.N

\* C10 as stated: EndAssessment appends to each assessed member exactly one
\* score, its fitness at that moment, and resets it, and leaves the other
\* members as they are; after one full rotation of teams every member has
\* exactly one score.
C10_OneScorePerAssessedMember ==
    EndAssessmentDone =>
       /\ OneScoreEach
       /\ FullRotation => \A m \in Range(pop.members) : Len(pop.scores[m]) = 1

\* C10, amended: the above holds when no member is twice in the team
\* (teamsize = -1 or teamsize <= popSize), and every member has exactly one
\* score after popSize / teamsize assessments when teamsize divides popSize
\* (after one assessment when teamsize = -1).
C10_OneScorePerDistinctTeamMember ==
    EndAssessmentDone =>
       /\ pop.teamsize <= pop.N => OneScoreEach
       /\ (FullRotation /\ (pop.teamsize = -1 \/ pop.N % pop.teamsize = 0)) =>
             \A m \in Range(pop.members) : Len(pop.scores[m]) = 1

\* A population of four in teams of two has ended its second assessment;
\* a member of each team had found a cheese.
C10_Witness ==
    /\ EndAssessmentDone
    /\ pop.N = 4
    /\ pop.teamsize = 2
    /\ pop.j = 2
    /\ pop.scores[1] = <<1>>
    /\ pop.scores[4] = <<1>>
    /\ pop.scores[2] = <<0>>


(***************************************************************************)
(* The genetic algorithm (core/evolve/geneticalgorithm.py) on the members  *)
(* of a Population.                                                        *)
(*                                                                         *)
(* ga.members is population.members, a list of object identities;          *)
(* ga.evo maps an identity to the Evolver attributes of that object.       *)
(* A floating point number that the code obtains by a division is an       *)
(* exact fraction [num, den]; den = 0 stands for the non-finite values     *)
(* (nan, inf) that numpy returns for a division by zero.  None is the      *)
(* value -1 of the population model: no fitness of the model is -1.        *)
(* A call that raises leaves ga.pc = "raised" with the exception's name    *)
(* in ga.error and the attributes as the raise found them.                 *)
(***************************************************************************)
MaxGAPopSize == 4
MaxElitism == 2
MaxCulling == 2
ChromoLength == 2
MaxMutations == 1

GA_ROULETTE == 0
GA_RANK == 1
GA_TOURNAMENT == 2
GA_BEST_FITNESS == 0
GA_WORST_FITNESS == 1
GA_MEAN_FITNESS == 2
GA_TOTAL_FITNESS == 3
GA_IGNORE == 0
GA_CLAMP == 1
GA_FIX == 2
GA_EXPONENT == 1
GA_TOURNAMENT_SIZE == 5

\* The fitness histories (GAFitnessScores) a member may have: none, one
\* score, or two scores.
ScoreLists == {<<>>, <<0>>, <<-2>>, <<2>>, <<1, 3>>}

RECURSIVE GCD(_, _)
GCD(a, b) == IF b = 0 THEN Abs(a) ELSE GCD(b, a % Abs(b))

NaN == [num |-> 0, den |-> 0]
Reduce(n, d) ==
    IF d = 0 THEN NaN
    ELSE LET g == GCD(n, d)
         IN [num |-> Sign(d) * (n \div g), den |-> Abs(d) \div g]
Float(n) == [num |-> n, den |-> 1]
FAdd(a, b) ==
    IF a.den = 0 \/ b.den = 0 THEN NaN
    ELSE Reduce(a.num * b.den + b.num * a.den, a.den * b.den)
FDiv(a, b) ==
    IF a.den = 0 \/ b.den = 0 \/ b.num = 0 THEN NaN
    ELSE Reduce(a.num * b.den, a.den * b.num)
FPow(a, e) == IF a.den = 0 THEN NaN ELSE Reduce(a.num ^ e, a.den ^ e)

RECURSIVE SeqSum(_)
SeqSum(s) == IF s = <<>> THEN 0 ELSE Head(s) + SeqSum(Tail(s))
SeqMax(s) == CHOOSE x \in Range(s) : \A y \in Range(s) : y <= x
SeqMin(s) == CHOOSE x \in Range(s) : \A y \in Range(s) : x <= y

\* A new Evolver (evolver.py, __init__) with the given history and genes.
Evolver(scores, genotype) ==
    [GAFitnessScores |-> scores,
     GAProbability |-> Float(0),
     GAFitness |-> 0,
     GAFixedFitness |-> 0,
     genotype |-> genotype]

\* The weights an EvoFFNAnimat is built with; SetGenotype and GetGenotype
\* copy the values in and out.
InitialGenotype(id) == [k \in 1..ChromoLength |-> 10 * id + k]

\* GeneticAlgorithm.GetFitness: the value returned for an Evolver.
GAGetFitness(g, id) ==
    LET s == g.evo[id].GAFitnessScores
    IN IF s = <<>> THEN None
       ELSE IF g.fitnessMethod = GA_BEST_FITNESS THEN SeqMax(s)
       ELSE IF g.fitnessMethod = GA_WORST_FITNESS THEN SeqMin(s)
       ELSE IF g.fitnessMethod = GA_MEAN_FITNESS THEN SeqSum(s) \div Len(s)
       ELSE SeqSum(s)

Raise(g, error) == [g EXCEPT !.pc = "raised", !.error = error]

\* One turn of the loop of CalcStats on a member.  Comparing a number with
\* None raises TypeError.
CalcStatsStep(g, id) ==
    LET f == GAGetFitness(g, id)
        g1 == [g EXCEPT !.evo[id].GAFitness = f]
    IN IF f = None THEN g
       ELSE IF g.bestFitness = None THEN Raise(g1, "TypeError")
       ELSE IF f > g.bestFitness
            THEN [g1 EXCEPT !.bestEvoSoFar = id, !.bestFitness = f,
                            !.totalFitness = @ + f]
       ELSE IF f < g.worstFitness
            THEN [g1 EXCEPT !.worstFitness = f, !.totalFitness = @ + f]
       ELSE [g1 EXCEPT !.totalFitness = @ + f]

RECURSIVE CalcStatsLoop(_, _)
CalcStatsLoop(g, i) ==
    IF i > Len(g.members) \/ g.pc = "raised" THEN g
    ELSE CalcStatsLoop(CalcStatsStep(g, g.members[i]), i + 1)

\* CalcStats after its asserts.
CalcStatsBody(g1) ==
    LET n == Len(g1.members)
        f0 == GAGetFitness(g1, g1.members[1])
        g2 == [g1 EXCEPT !.bestEvoSoFar = g1.members[1],
                         !.evo[g1.members[1]].GAFitness =
                             IF f0 = None THEN @ ELSE f0,
                         !.bestFitness = f0,
                         !.worstFitness = f0,
                         !.totalFitness = 0]
        g3 == CalcStatsLoop(g2, 1)
    IN IF g3.pc = "raised" THEN g3
       ELSE
       LET genome == g3.evo[g3.bestEvoSoFar].genotype
           g4 == [g3 EXCEPT !.generations = @ + 1,
                            !.averageFitnessRecord =
                                Append(@, Reduce(g3.totalFitness, n)),
                            !.bestFitnessRecord = Append(@, g3.bestFitness),
                            !.bestCurrentGenome = genome]
       IN IF g4.bestFitness = None THEN Raise(g4, "TypeError")
          ELSE IF g4.bestFitness > g4.bestEverFitness
               THEN [g4 EXCEPT !.bestEverFitness = g4.bestFitness,
                               !.bestEverGenome = genome]
          ELSE g4

PreconditionsHold(g) ==
    LET n == Len(g.members)
    IN /\ n % 2 = 0
       /\ g.culling <= n - 2
       /\ g.elitism <= n - g.culling

CalcStats_CountFirst(g) ==
    IF ~PreconditionsHold(g)
    THEN Raise([g EXCEPT !.inputPopSize = Len(g.members),
                         !.generations = @ + 1], "AssertionError")
    ELSE CalcStatsBody([g EXCEPT !.inputPopSize = Len(g.members)])
CalcStats(g) ==
    LET g1 == [g EXCEPT !.inputPopSize = Len(g.members)]
    IN IF ~PreconditionsHold(g1)
       THEN Raise(g1, "AssertionError")
       ELSE CalcStatsBody(g1)

\* GeneticAlgorithm.FixFitness.  GAFitness is a number for every member
\* (0.0 until GetFitness has found a score), so the test for None is never
\* true.
FixedFitness(g, id) ==
    LET f == g.evo[id].GAFitness
    IN IF g.fitnessFix = GA_FIX THEN f - g.worstFitness
       ELSE IF g.fitnessFix = GA_CLAMP THEN (IF f > 0 THEN f ELSE 0)
       ELSE f

FixFitness(g) ==
    LET fixed == [id \in DOMAIN g.evo |->
                     IF g.evo[id].GAFitness = None
                     THEN g.evo[id].GAFixedFitness
                     ELSE FixedFitness(g, id)]
    IN [g EXCEPT !.evo = [id \in DOMAIN g.evo |->
                             [g.evo[id] EXCEPT !.GAFixedFitness = fixed[id]]],
                 !.totalFixedFitness =
                     SeqSum([i \in 1..Len(g.members) |->
                                IF g.evo[g.members[i]].GAFitness = None
                                THEN 0 ELSE fixed[g.members[i]]])]

\* members.sort(key = GAFixedFitness, reverse = True): a stable sort.
SortPosition(g, i) ==
    LET key(j) == g.evo[g.members[j]].GAFixedFitness
    IN 1 + Cardinality({j \in 1..Len(g.members) :
                           \/ key(j) > key(i)
                           \/ key(j) = key(i) /\ j < i})

SortMembers(g) ==
    [p \in 1..Len(g.members) |->
        g.members[CHOOSE i \in 1..Len(g.members) : SortPosition(g, i) = p]]

RECURSIVE FSum(_)
FSum(s) == IF s = <<>> THEN Float(0) ELSE FAdd(Head(s), FSum(Tail(s)))

\* The GAProbability of the member at 0-based position rank before it is
\* normalised.
RawProbability(g, rank) ==
    LET e == g.evo[g.members[rank + 1]]
    IN IF e.GAFitness = None THEN Float(0)
       ELSE IF g.selection = GA_ROULETTE
            THEN FPow(FDiv(Float(e.GAFixedFitness),
                           Float(g.totalFixedFitness)), GA_EXPONENT)
       ELSE IF g.selection = GA_RANK
            THEN FPow(FAdd(Float(1), Reduce(-rank, g.inputPopSize - 1)),
                      GA_EXPONENT)
       ELSE e.GAProbability

\* GeneticAlgorithm.Setup.  Under GA_CLAMP a total fixed fitness of zero is
\* the sum of Python ints (max(0, f) returns its first argument when f <=
\* 0) and the division raises ZeroDivisionError; otherwise the total is a
\* numpy scalar and the division returns nan or inf.
Setup(g) ==
    LET g1 == [g EXCEPT !.outputPopulation = <<>>,
                        !.outputPopSize = Len(g.members),
                        !.chromoLength = Len(g.evo[g.members[1]].genotype)]
        g2 == FixFitness(g1)
        g3 == [g2 EXCEPT !.members = SortMembers(g2), !.totalProbability = Float(0)]
        n == Len(g3.members)
        raw == [i \in 1..n |-> RawProbability(g3, i - 1)]
        total == FSum([i \in 1..n |->
                         IF g3.evo[g3.members[i]].GAFitness = None
                         THEN Float(0) ELSE raw[i]])
        position(id) == CHOOSE i \in 1..n : g3.members[i] = id
    IN IF g3.selection = GA_TOURNAMENT THEN g3
       ELSE IF /\ g3.selection = GA_ROULETTE
               /\ g3.totalFixedFitness = 0
               /\ g3.fitnessFix = GA_CLAMP
            THEN Raise(g3, "ZeroDivisionError")
       ELSE [g3 EXCEPT !.totalProbability = total,
                       !.evo = [id \in DOMAIN g3.evo |->
                                   IF id \in Range(g3.members)
                                   THEN [g3.evo[id] EXCEPT !.GAProbability =
                                            FDiv(raw[position(id)], total)]
                                   ELSE g3.evo[id]]]

GetGenotype_Shared(g, id) == [genes |-> g.evo[id].genotype, shares |-> id]
GetGenotype(g, id) == [genes |-> g.evo[id].genotype, shares |-> 0]

\* GeneticAlgorithm.NewMember followed by SetGenotype(array) on the new
\* object: the genes are copied into the weights of its brain.
NewMember(g, array) == [id |-> g.nextId, genotype |-> array.genes]

\* The tournament size can be set with SetIntParameter.
TournamentSizes == {3, GA_TOURNAMENT_SIZE}

NonNegative(a) == a.den # 0 /\ a.num >= 0

\* random.choices(members, weights): whether the weights are ones it is
\* defined for (finite, not negative, of a positive total).
WeightsUsable(g) ==
    /\ \A id \in Range(g.members) : NonNegative(g.evo[id].GAProbability)
    /\ \E id \in Range(g.members) : g.evo[id].GAProbability.num > 0

\* The members SelectParentGenotype can return the genotype of.  With
\* weights random.choices is not defined for, it raises ValueError or
\* returns any member, depending on the version of the library.
Selectable(g) ==
    IF g.selection \in {GA_ROULETTE, GA_RANK}
    THEN IF WeightsUsable(g)
         THEN {id \in Range(g.members) : g.evo[id].GAProbability.num > 0}
         ELSE Range(g.members)
    ELSE IF g.tournamentSize > Len(g.members) THEN {}
    ELSE Range(g.members)

\* Whether SelectParentGenotype can raise ValueError: random.sample of more
\* members than there are, random.choices on unusable weights.
SelectionMayRaise(g) ==
    IF g.selection \in {GA_ROULETTE, GA_RANK}
    THEN ~WeightsUsable(g)
    ELSE g.tournamentSize > Len(g.members)

\* Python's s[:k] and s[k:].
Upto(s, k) == SubSeq(s, 1, IF k < Len(s) THEN k ELSE Len(s))
From(s, k) == SubSeq(s, k + 1, Len(s))

\* GeneticAlgorithm.CrossoverGenotypes with crossover_point = k.
CrossoverGenotypes_SwapAfter(mum, dad, k) ==
    <<[genes |-> Upto(mum.genes, k + 1) \o From(dad.genes, k + 1), shares |-> 0],
      [genes |-> Upto(dad.genes, k + 1) \o From(mum.genes, k + 1), shares |-> 0]>>
CrossoverGenotypes(mum, dad, k) ==
    <<[genes |-> Upto(mum.genes, k) \o From(dad.genes, k), shares |-> 0],
      [genes |-> Upto(dad.genes, k) \o From(mum.genes, k), shares |-> 0]>>

\* The mutation operator adds a random number to a gene.
MutationStep == 100
mutFunc(gene) == gene + MutationStep

\* GeneticAlgorithm.MutateGenotype writes into the array it is given: hit
\* are the positions at which random.random() < mutation.
MutateGenotype(array, hit) ==
    [array EXCEPT !.genes = [k \in 1..Len(array.genes) |->
                                IF k \in hit THEN mutFunc(array.genes[k])
                                ELSE array.genes[k]]]

\* The weights of the members after an array was written into: the member
\* whose weights the array shares sees the writes.
WriteThrough(g, array) ==
    IF array.shares = 0 THEN g
    ELSE [g EXCEPT !.evo[array.shares].genotype = array.genes]

\* What a call finds: the attributes a failed call must leave alone.
Snapshot(g) ==
    [members |-> g.members,
     evo |-> g.evo,
     outputPopulation |-> g.outputPopulation,
     generations |-> g.generations,
     averageFitnessRecord |-> g.averageFitnessRecord,
     bestFitnessRecord |-> g.bestFitnessRecord]

Enter(g, method) == [g EXCEPT !.call = method, !.before = Snapshot(g)]
Return(g, pc) == IF g.pc = "raised" THEN g ELSE [g EXCEPT !.pc = pc]

\* The copy of the elite at 0-based position i of the sorted members.
Elite(g, i) ==
    NewMember([g EXCEPT !.nextId = @ + i], GetGenotype(g, g.members[i + 1]))

\* GeneticAlgorithm.Generate after CalcStats and Setup, up to its breeding
\* loop: the culling and the copies of the elites.
GenerateBegin(g) ==
    LET n == Len(g.members)
        g3 == [g EXCEPT !.outputPopulation = <<>>,
                        !.sorted = g.members,
                        !.members = SubSeq(g.members, 1, n - g.culling),
                        !.culled = {g.members[i] : i \in (n - g.culling + 1)..n}]
    IN [g3 EXCEPT !.outputPopulation =
                      [i \in 1..g3.elitism |-> Elite(g3, i - 1)],
                  !.nextId = @ + g3.elitism,
                  !.i = 0,
                  !.pc = "breeding"]

\* One turn of the breeding loop of Generate: the parents p1 and p2 were
\* selected, cross tells whether random.random() < crossover, k is the
\* crossover point and hit1, hit2 are the positions that mutate.
Breed(g, p1, p2, cross, k, hit1, hit2) ==
    LET mum == GetGenotype(g, p1)
        dad == GetGenotype(g, p2)
        crossed == IF cross THEN CrossoverGenotypes(mum, dad, k)
                   ELSE <<mum, dad>>
        geno1 == MutateGenotype(crossed[1], hit1)
        geno2 == MutateGenotype(crossed[2], hit2)
        g1 == WriteThrough(WriteThrough(g, geno1), geno2)
        evo1 == NewMember(g1, geno1)
        evo2 == NewMember([g1 EXCEPT !.nextId = @ + 1], geno2)
    IN [g1 EXCEPT !.outputPopulation = @ \o <<evo1, evo2>>,
                  !.nextId = @ + 2,
                  !.i = @ + 1,
                  !.mutations = @ + Cardinality(hit1) + Cardinality(hit2),
                  !.parents = @ \cup {p1, p2},
                  !.cross = [mum |-> mum.genes, dad |-> dad.genes,
                             k |-> IF cross THEN k ELSE -1,
                             child1 |-> crossed[1].genes,
                             child2 |-> crossed[2].genes]]

BreedingTurns_AfterCulling(g) == (Len(g.members) - g.elitism) \div 2
BreedingTurns(g) == (g.outputPopSize - g.elitism) \div 2

\* A GeneticAlgorithm as its constructor leaves it, on a population of n
\* members with the given fitness histories.
NewGA(n, scores, elitism, culling, selection, fitnessFix, fitnessMethod, tournamentSize) ==
    [pc |-> "ready", error |-> "", call |-> "",
     members |-> [i \in 1..n |-> i],
     evo |-> [id \in 1..n |-> Evolver(scores[id], InitialGenotype(id))],
     elitism |-> elitism,
     culling |-> culling,
     selection |-> selection,
     fitnessFix |-> fitnessFix,
     fitnessMethod |-> fitnessMethod,
     tournamentSize |-> tournamentSize,
     outputPopulation |-> <<>>,
     outputPopSize |-> 0,
     inputPopSize |-> 0,
     chromoLength |-> 0,
     totalFitness |-> 0,
     bestFitness |-> 0,
     totalFixedFitness |-> 0,
     worstFitness |-> 0,
     totalProbability |-> Float(0),
     generations |-> 0,
     averageFitnessRecord |-> <<>>,
     bestFitnessRecord |-> <<>>,
     bestEverFitness |-> 0,
     bestEverGenome |-> <<>>,
     bestCurrentGenome |-> <<>>,
     bestEvoSoFar |-> 0,
     nextId |-> n + 1,
     i |-> 0,
     mutations |-> 0,
     parents |-> {},
     culled |-> {},
     sorted |-> <<>>,
     cross |-> [mum |-> <<>>, dad |-> <<>>, k |-> -1,
                child1 |-> <<>>, child2 |-> <<>>],
     before |-> [members |-> <<>>, evo |-> <<>>, outputPopulation |-> <<>>,
                 generations |-> 0, averageFitnessRecord |-> <<>>,
                 bestFitnessRecord |-> <<>>]]

Cullings == {c \in 0..MaxCulling : c % 2 = 0}

\* A population after its assessments, each member with any of the fitness
\* histories, under every setting of the algorithm.
GAStatsInit ==
    \E n \in 0..MaxGAPopSize, elitism \in 0..MaxElitism, culling \in Cullings,
       selection \in {GA_ROULETTE, GA_RANK, GA_TOURNAMENT},
       fitnessFix \in {GA_IGNORE, GA_CLAMP, GA_FIX},
       fitnessMethod \in {GA_BEST_FITNESS, GA_WORST_FITNESS,
                          GA_MEAN_FITNESS, GA_TOTAL_FITNESS} :
       \E scores \in [1..n -> ScoreLists] :
          ga = NewGA(n, scores, elitism, culling, selection, fitnessFix,
                     fitnessMethod, GA_TOURNAMENT_SIZE)

\* The fitness history of a member of the populations that are bred.
BredScores(id) == <<id % 3>>

GAInit ==
    \E n \in 0..MaxGAPopSize, elitism \in 0..MaxElitism, culling \in Cullings,
       selection \in {GA_ROULETTE, GA_RANK, GA_TOURNAMENT},
       tournamentSize \in TournamentSizes :
       /\ selection # GA_TOURNAMENT => tournamentSize = GA_TOURNAMENT_SIZE
       /\ ga = NewGA(n, [id \in 1..n |-> BredScores(id)], elitism, culling,
                     selection, GA_IGNORE, GA_BEST_FITNESS, tournamentSize)

GACalcStats ==
    /\ ga.pc = "ready"
    /\ ga' = Return(CalcStats(Enter(ga, "CalcStats")), "statsDone")
    /\ UNCHANGED <<sim, world, pair, pop, sense, brain, gui, arena>>

GASetup ==
    /\ ga.pc = "statsDone"
    /\ ga' = Return(Setup(Enter(ga, "Setup")), "setupDone")
    /\ UNCHANGED <<sim, world, pair, pop, sense, brain, gui, arena>>

GAGenerate ==
    /\ ga.pc \in {"ready", "setupDone"}
    /\ \E g1 \in {CalcStats(Enter(ga, "Generate"))} :
          IF g1.pc = "raised" THEN ga' = g1
          ELSE \E g2 \in {Setup(g1)} :
                  IF g2.pc = "raised" THEN ga' = g2
                  ELSE ga' = GenerateBegin(g2)
    /\ UNCHANGED <<sim, world, pair, pop, sense, brain, gui, arena>>

GABreed ==
    /\ ga.pc = "breeding"
    /\ ga.i < BreedingTurns(ga)
    /\ \/ /\ SelectionMayRaise(ga)
          /\ ga' = Raise(ga, "ValueError")
       \/ \E p1 \in Selectable(ga), p2 \in Selectable(ga), cross \in BOOLEAN,
             k \in 0..(ga.chromoLength - 1),
             hit1 \in SUBSET (1..ga.chromoLength),
             hit2 \in SUBSET (1..ga.chromoLength) :
             /\ ~cross => k = 0
             /\ ga.mutations + Cardinality(hit1) + Cardinality(hit2) <= MaxMutations
             /\ ga' = Breed(ga, p1, p2, cross, k, hit1, hit2)
    /\ UNCHANGED <<sim, world, pair, pop, sense, brain, gui, arena>>

GAGenerateReturn ==
    /\ ga.pc = "breeding"
    /\ ga.i >= BreedingTurns(ga)
    /\ ga' = [ga EXCEPT !.pc = "generated"]
    /\ UNCHANGED <<sim, world, pair, pop, sense, brain, gui, arena>>

\* CrossoverGenotypes called on the genotypes of two members, with the
\* crossover point random.randint is made to return.
GACrossoverGenotypes ==
    /\ ga.pc = "ready"
    /\ \E p1 \in Range(ga.members), p2 \in Range(ga.members) :
          LET mum == GetGenotype(ga, p1)
              dad == GetGenotype(ga, p2)
          IN \E k \in 0..Len(mum.genes) :
                LET children == CrossoverGenotypes(mum, dad, k)
                IN ga' = [ga EXCEPT !.pc = "crossed",
                                    !.call = "CrossoverGenotypes",
                                    !.cross = [mum |-> mum.genes,
                                               dad |-> dad.genes,
                                               k |-> k,
                                               child1 |-> children[1].genes,
                                               child2 |-> children[2].genes]]
    /\ UNCHANGED <<sim, world, pair, pop, sense, brain, gui, arena>>

\* Population.EndGeneration once GA.Generate() has returned:
\* self.members.clear(); self.members.extend(self.GA.outputPopulation)
PopulationEndGeneration ==
    /\ ga.pc = "generated"
    /\ ga' = [ga EXCEPT
                !.pc = "ended",
                !.members = [i \in 1..Len(ga.outputPopulation) |->
                                ga.outputPopulation[i].id],
                !.evo = [id \in {ga.outputPopulation[i].id :
                                    i \in 1..Len(ga.outputPopulation)} |->
                            Evolver(<<>>, (CHOOSE m \in Range(ga.outputPopulation) :
                                              m.id = id).genotype)]]
    /\ UNCHANGED <<sim, world, pair, pop, sense, brain, gui, arena>>

InitGAStats ==
    /\ GAStatsInit
    /\ sim = IdleSim /\ world = IdleWorld /\ pair = IdlePair /\ pop = IdlePop
    /\ sense = IdleSense
    /\ brain = IdleBrain /\ gui = IdleGui /\ arena = IdleArena

NextGAStats == GACalcStats \/ GASetup

SpecGAStats == InitGAStats /\ [][NextGAStats]_vars

InitGA ==
    /\ GAInit
    /\ sim = IdleSim /\ world = IdleWorld /\ pair = IdlePair /\ pop = IdlePop
    /\ sense = IdleSense
    /\ brain = IdleBrain /\ gui = IdleGui /\ arena = IdleArena

NextGA ==
    \/ GACalcStats
    \/ GASetup
    \/ GAGenerate
    \/ GABreed
    \/ GAGenerateReturn
    \/ PopulationEndGeneration
    \/ GACrossoverGenotypes

SpecGA == InitGA /\ [][NextGA]_vars

\* The call that was made last found the preconditions of CalcStats
\* violated: an odd population size, culling > popSize - 2 or elitism >
\* popSize - culling.
PreconditionsFailed ==
    LET n == Len(ga.before.members)
    IN \/ n % 2 # 0
       \/ ga.culling > n - 2
       \/ ga.elitism > n - ga.culling

AssessedPositions ==
    {i \in 1..Len(ga.before.members) :
        ga.before.evo[ga.before.members[i]].GAFitnessScores # <<>>}

AggregateFitness(i) == GAGetFitness(ga, ga.before.members[i])

\* C12: a call of CalcStats that finds its preconditions satisfied does
\* not raise, wherever the members without a score stand in the list; it
\* sets bestFitness, worstFitness and totalFitness to the maximum, minimum
\* and sum of the aggregate fitness over the members with a score, and
\* bestCurrentGenome to the genotype of the first member attaining the
\* maximum.
C12_StatsOverAssessedMembers ==
    (ga.call = "CalcStats" /\ ~PreconditionsFailed) =>
       /\ ga.pc # "raised"
       /\ AssessedPositions # {} =>
             /\ \E i \in AssessedPositions : ga.bestFitness = AggregateFitness(i)
             /\ \A i \in AssessedPositions : ga.bestFitness >= AggregateFitness(i)
             /\ \E i \in AssessedPositions : ga.worstFitness = AggregateFitness(i)
             /\ \A i \in AssessedPositions : ga.worstFitness <= AggregateFitness(i)
             /\ ga.totalFitness =
                   SeqSum([i \in 1..Len(ga.before.members) |->
                              IF i \in AssessedPositions
                              THEN AggregateFitness(i) ELSE 0])
             /\ \E i \in AssessedPositions :
                   /\ AggregateFitness(i) = ga.bestFitness
                   /\ \A j \in AssessedPositions :
                         j < i => AggregateFitness(j) < ga.bestFitness
                   /\ ga.bestCurrentGenome =
                         ga.before.evo[ga.before.members[i]].genotype

\* Every member had a recorded score when the last call was made.
AllAssessed == AssessedPositions = 1..Len(ga.before.members)

\* The sum of the GAProbability of the members.
ProbabilitySum ==
    FSum([i \in 1..Len(ga.members) |-> ga.evo[ga.members[i]].GAProbability])

\* C13: after CalcStats and Setup with roulette or rank selection on an
\* even-sized population in which every member has been assessed, the
\* GAProbability of the members sum to 1, under every fitness-fix policy
\* and also when all members have the same fitness or fitness 0.
C13_ProbabilitiesSumToOne ==
    (/\ ga.call = "Setup"
     /\ ga.selection \in {GA_ROULETTE, GA_RANK}
     /\ AllAssessed) =>
       /\ ga.pc = "setupDone"
       /\ ProbabilitySum = Float(1)

\* C14: after Setup, under each of the three fitness-fix policies, the
\* GAFixedFitness and the GAProbability of every member are not negative,
\* and population.members is in non-increasing order of GAFixedFitness.
C14_WeightsNonNegativeMembersSorted ==
    (ga.call = "Setup" /\ ga.pc = "setupDone") =>
       /\ \A id \in Range(ga.members) :
             /\ ga.evo[id].GAFixedFitness >= 0
             /\ NonNegative(ga.evo[id].GAProbability)
       /\ \A i \in 1..(Len(ga.members) - 1) :
             ga.evo[ga.members[i]].GAFixedFitness >=
                ga.evo[ga.members[i + 1]].GAFixedFitness

\* Generate has returned.
Generated == ga.call = "Generate" /\ ga.pc = "generated"

\* The size of the population Generate was called on.
PopSizeBefore == Len(ga.before.members)

\* C15: when Generate returns, outputPopulation holds the elitism elite
\* copies first and then the newly bred members, two per turn:
\* len(outputPopulation) = elitism + 2 * floor((popSize - elitism) / 2),
\* popSize being the size of the population before culling.
C15_OutputPopulationSize ==
    Generated =>
       /\ Len(ga.outputPopulation) =
             ga.elitism + 2 * ((PopSizeBefore - ga.elitism) \div 2)
       /\ \A i \in 1..ga.elitism :
             ga.outputPopulation[i].genotype = ga.before.evo[ga.sorted[i]].genotype
       /\ \A i \in 1..Len(ga.outputPopulation) :
             /\ ga.outputPopulation[i].id \notin Range(ga.before.members)
             /\ \A j \in 1..Len(ga.outputPopulation) :
                   ga.outputPopulation[i].id = ga.outputPopulation[j].id => i = j

\* Generate has returned from a population of four with culling = 2 and
\* elitism = 1: one elite and one pair of bred members.
C15_Witness ==
    /\ Generated
    /\ PopSizeBefore = 4
    /\ ga.culling = 2
    /\ ga.elitism = 1
    /\ Len(ga.outputPopulation) = 3
    /\ ga.i = 1

\* C16: after Generate with elitism = e > 0, for every i < e the member
\* outputPopulation[i] is an object other than the i-th member of the old
\* population in descending order of fixed fitness and has that member's
\* genotype, as it was when Generate was called and as it is after the
\* crossovers and mutations of the breeding.
C16_ElitesKeepGenotype ==
    (Generated /\ ga.elitism > 0) =>
       /\ \A i \in 1..(Len(ga.sorted) - 1) :
             ga.evo[ga.sorted[i]].GAFixedFitness >=
                ga.evo[ga.sorted[i + 1]].GAFixedFitness
       /\ \A i \in 1..ga.elitism :
             /\ ga.outputPopulation[i].id # ga.sorted[i]
             /\ ga.outputPopulation[i].id \notin Range(ga.before.members)
             /\ ga.outputPopulation[i].genotype = ga.before.evo[ga.sorted[i]].genotype
             /\ ga.outputPopulation[i].genotype = ga.evo[ga.sorted[i]].genotype
             /\ ga.outputPopulation[i].genotype = InitialGenotype(ga.sorted[i])

\* Generate has returned with two elites; the best member was a parent, and
\* a crossover and a mutation were made in the last breeding turn.
C16_Witness ==
    /\ Generated
    /\ ga.elitism = 2
    /\ ga.sorted[1] \in ga.parents
    /\ ga.mutations = 1
    /\ ga.cross.k = 1
    /\ ga.cross.child1 # ga.cross.mum
    /\ Len(ga.outputPopulation) = 4

\* The breeding loop of Generate has been entered.
BreedingBegun == ga.call = "Generate" /\ ga.pc \in {"breeding", "generated"}

\* The culling of Generate: the last ga.culling members in descending order
\* of fixed fitness are gone from population.members, and none of them is
\* an elite or a parent.
CullingDone ==
    LET n == Len(ga.sorted)
    IN /\ Len(ga.members) = PopSizeBefore - ga.culling
       /\ ga.members = SubSeq(ga.sorted, 1, n - ga.culling)
       /\ ga.culled = {ga.sorted[i] : i \in (n - ga.culling + 1)..n}
       /\ Cardinality(ga.culled) = ga.culling
       /\ \A x \in ga.culled : \A id \in Range(ga.members) :
             ga.evo[x].GAFixedFitness <= ga.evo[id].GAFixedFitness
       /\ ga.parents \cap ga.culled = {}
       /\ \A i \in 1..ga.elitism : ga.sorted[i] \notin ga.culled

\* C17: Generate with culling = c removes exactly the c members of lowest
\* fixed fitness from population.members before an elite is copied or a
\* parent selected, no culled member is an elite or a parent, and the
\* selection of the parents succeeds (does not raise) under every selection
\* method on the members that remain.
C17_CullingThenSelectionSucceeds ==
    (ga.call = "Generate" /\ ~PreconditionsFailed) =>
       /\ ga.pc # "raised"
       /\ BreedingBegun => CullingDone

(***************************************************************************)
(* A nearest-match sensor (core/sensors): a Sensor whose evaluation        *)
(* function is an EvalNearest, as NearestAngleSensor builds it, and the    *)
(* objects of the world it is shown.  sense.bestCandidate is an object or  *)
(* 0 for None.  The objects lie on the two axes through the sensor, so     *)
(* that their distances are whole numbers.                                 *)
(***************************************************************************)
NumCandidates == 3

SensorLocation == <<5, 5>>
CandidateLocations == {<<7, 5>>, <<5, 8>>, <<2, 5>>, <<5, 0>>}
SensorRanges == {2, 3, 5}

NoCandidate == 0

\* EvalNearest.Reset
EvalNearestReset(s) ==
    [s EXCEPT !.bestCandidate = NoCandidate, !.nearestSoFar = s.range]

\* EvalNearest.__call__(obj, loc)
EvalNearestCall(s, obj, loc) ==
    LET distance == GetLength(VSub(s.location, loc))
    IN IF distance < s.nearestSoFar
       THEN [s EXCEPT !.distance = distance,
                      !.nearestSoFar = distance,
                      !.bestCandidate = obj,
                      !.bestCandidateVec = loc]
       ELSE [s EXCEPT !.distance = distance]

\* Sensor.Interact(other): the evaluation function sees the objects the
\* matching function accepts.
SensorInteractBody(s, other) ==
    IF s.matches[other]
    THEN EvalNearestCall(s, other, s.objects[other])
    ELSE s

\* A sensor of some range after Init, among objects at any of the
\* locations; some of them are of the type the sensor detects.
SensorInit ==
    \E range \in SensorRanges,
       objects \in [1..NumCandidates -> CandidateLocations],
       matches \in [1..NumCandidates -> BOOLEAN] :
       sense = [pc |-> "sensing",
                range |-> range,
                location |-> SensorLocation,
                objects |-> objects,
                matches |-> matches,
                nearestSoFar |-> range,
                bestCandidate |-> NoCandidate,
                bestCandidateVec |-> <<0, 0>>,
                distance |-> 0,
                shown |-> {}]

\* Sensor.Update: the evaluation function is reset for the next tick.
SensorUpdate ==
    /\ sense.pc = "sensing"
    /\ sense.shown # {}
    /\ sense' = [EvalNearestReset(sense) EXCEPT !.shown = {}]
    /\ UNCHANGED <<sim, world, pair, pop, ga, brain, gui, arena>>

\* Sensor.Interact with one of the objects, in any order.
SensorInteract ==
    /\ sense.pc = "sensing"
    /\ \E other \in 1..NumCandidates :
          sense' = [SensorInteractBody(sense, other) EXCEPT
                       !.shown = @ \cup {other}]
    /\ UNCHANGED <<sim, world, pair, pop, ga, brain, gui, arena>>

InitNearest ==
    /\ SensorInit
    /\ sim = IdleSim /\ world = IdleWorld /\ pair = IdlePair /\ pop = IdlePop
    /\ ga = IdleGA
    /\ brain = IdleBrain /\ gui = IdleGui /\ arena = IdleArena

NextNearest == SensorInteract \/ SensorUpdate

SpecNearest == InitNearest /\ [][NextNearest]_vars

\* The matching objects the sensor has interacted with since its last
\* Reset, and the distance of an object from the sensor.
Candidates == {c \in sense.shown : sense.matches[c]}

CandidateDistance(c) == GetLength(VSub(sense.objects[c], sense.location))

\* C19: after the sensor has interacted with a set of matching candidates
\* since its last Reset, in any order, bestCandidate is a candidate at the
\* smallest distance from the sensor if that distance is within the range
\* (<= R), and None only if the nearest candidate is farther than R.
C19_BestCandidateIsNearestWithinRange ==
    (sense.pc = "sensing" /\ Candidates # {}) =>
       LET nearest == CHOOSE c \in Candidates :
               \A x \in Candidates : CandidateDistance(c) <= CandidateDistance(x)
       IN IF CandidateDistance(nearest) <= sense.range
          THEN /\ sense.bestCandidate \in Candidates
               /\ CandidateDistance(sense.bestCandidate) = CandidateDistance(nearest)
          ELSE sense.bestCandidate = NoCandidate

(***************************************************************************)
(* The angular scope of a BeamSensor (core/sensors/sensorbase.py).  Angles *)
(* are whole multiples of pi / AngleSteps, and the scope is an even        *)
(* multiple, so that half the scope is a whole number too.                 *)
(***************************************************************************)
AngleSteps == 4
Pi == AngleSteps
TwoPi == 2 * Pi

\* BeamSensor.InScope(vec) of a sensor with orientation and scope, when
\* (vec - self.GetLocation()).GetAngle() is angleToOther.
InScope(s, angleToOther) ==
    IF s.scope = TwoPi THEN TRUE
    ELSE LET start == s.orientation - s.scope \div 2
             startAngle == IF start < 0 THEN start + TwoPi ELSE start
             endAngle == (s.orientation + s.scope \div 2) % TwoPi
         IN IF startAngle < endAngle
            THEN startAngle <= angleToOther /\ angleToOther <= endAngle
            ELSE startAngle <= angleToOther \/ angleToOther <= endAngle

\* A BeamSensor of any orientation in [0, 2 pi) and any scope its
\* constructor accepts, and a point in any direction from it.
BeamInit ==
    \E orientation \in 0..(TwoPi - 1), halfScope \in 0..Pi,
       angle \in 0..(TwoPi - 1) :
       sense = [pc |-> "aimed",
                orientation |-> orientation,
                scope |-> 2 * halfScope,
                angleToOther |-> angle,
                inScope |-> FALSE]

BeamInScope ==
    /\ sense.pc = "aimed"
    /\ sense' = [sense EXCEPT !.pc = "tested",
                              !.inScope = InScope(sense, sense.angleToOther)]
    /\ UNCHANGED <<sim, world, pair, pop, ga, brain, gui, arena>>

InitScope ==
    /\ BeamInit
    /\ sim = IdleSim /\ world = IdleWorld /\ pair = IdlePair /\ pop = IdlePop
    /\ ga = IdleGA
    /\ brain = IdleBrain /\ gui = IdleGui /\ arena = IdleArena

NextScope == BeamInScope

SpecScope == InitScope /\ [][NextScope]_vars

\* The angle lies within [orientation - scope / 2, orientation + scope / 2]
\* modulo 2 pi.
WithinScope ==
    \E k \in (-(sense.scope \div 2))..(sense.scope \div 2) :
       (sense.orientation + k + TwoPi) % TwoPi = sense.angleToOther

\* C20: InScope(p) is true iff the angle from the sensor to p lies within
\* [sensorOrientation - scope / 2, sensorOrientation + scope / 2] modulo
\* 2 pi, for every orientation in [0, 2 pi) and every scope from 0 to 2 pi.
C20_InScopeIffWithinScope ==
    sense.pc = "tested" => (sense.inScope <=> WithinScope)

(***************************************************************************)
(* The FeedForwardNet and the EvoFFNAnimat that owns it                    *)
(* (core/control/feedforwardnet.py, core/agents/neuralanimat.py).          *)
(*                                                                         *)
(* A neuron is its weight vector (a sequence; the bias weight, if any, is  *)
(* the last element).  numpy arrays are sequences; np.dot and reshape      *)
(* raise ValueError on a shape mismatch.  The sigmoid is strictly          *)
(* increasing, so its value at x is represented by the record              *)
(* [sigmoidOf |-> x]; a weighted sum over such values is kept as the pair  *)
(* of its weights and its values.                                          *)
(***************************************************************************)
MaxInputs == 2
MaxOutputs == 2
MaxHidden == 2
MaxSeed == 2
MaxGenomeLength == 4

BiasWeights(bias) == IF bias THEN 1 ELSE 0

\* FFNeuron.__init__: np.zeros(n + (1 if bias else 0))
FFNeuron(n, bias) == [j \in 1..(n + BiasWeights(bias)) |-> 0]

\* FeedForwardNet.Init
FFNInit(inputs, outputs, hidden, sig, bias) ==
    LET nih == (inputs + BiasWeights(bias)) * hidden
        nho == (hidden + BiasWeights(bias)) * outputs
        hid == IF hidden = 0 THEN inputs ELSE hidden
    IN  [inputs |-> inputs, outputs |-> outputs, hidden |-> hid,
         sigmoid |-> sig, biasNode |-> bias,
         inputValues |-> [j \in 1..inputs |-> 0],
         outputValues |-> [j \in 1..outputs |-> 0],
         numberInputToHiddenWeights |-> nih,
         numberHiddenToOutputWeights |-> nho,
         numberWeights |-> nih + nho,
         hiddenLayer |-> [i \in 1..hidden |-> FFNeuron(inputs, bias)],
         outputLayer |-> [i \in 1..outputs |-> FFNeuron(hid, bias)]]

\* the number np.random.uniform hands out for weight j of neuron i of a
\* layer, for one state (seed) of the generator
Uniform(seed, layer, i, j) == ((seed + 7 * layer + 3 * i + j) % 5) - 2

\* FeedForwardNet.Randomise
Randomise(net, seed) ==
    [net EXCEPT
        !.hiddenLayer = [i \in 1..Len(@) |->
                            [j \in 1..Len(@[i]) |-> Uniform(seed, 0, i, j)]],
        !.outputLayer = [i \in 1..Len(@) |->
                            [j \in 1..Len(@[i]) |-> Uniform(seed, 1, i, j)]]]

\* FFNAnimat.AddFFNBrain
AddFFNBrain(hidden, inputs, outputs, sig, bias, seed) ==
    Randomise(FFNInit(inputs, outputs, hidden, sig, bias), seed)

RECURSIVE Flatten(_)
\* np.array(rows).flatten(): the rows one after the other
Flatten(rows) ==
    IF rows = <<>> THEN <<>> ELSE Head(rows) \o Flatten(Tail(rows))

\* FeedForwardNet.GetConfiguration
GetConfiguration(net) ==
    [hidden |-> net.hiddenLayer, output |-> net.outputLayer]

\* EvoFFNAnimat.GetGenotype
FFNGetGenotype(net) ==
    Flatten(GetConfiguration(net).hidden) \o Flatten(GetConfiguration(net).output)

\* ndarray.reshape((rows, cols)) is possible only for rows * cols elements
Reshapable(seq, rows, cols) == Len(seq) = rows * cols

Reshape(seq, rows, cols) ==
    [r \in 1..rows |-> [c \in 1..cols |-> seq[(r - 1) * cols + c]]]

\* the neurons of a layer before the first one whose assertion fails take
\* their new weights (neuron.weights[:] = weights)
FirstMismatch(layer, rows) ==
    LET n == IF Len(layer) < Len(rows) THEN Len(layer) ELSE Len(rows)
        bad == {i \in 1..n : Len(rows[i]) # Len(layer[i])}
    IN  IF bad = {} THEN n + 1 ELSE CHOOSE i \in bad : \A k \in bad : i <= k

AssignRows(layer, rows) ==
    [i \in 1..Len(layer) |->
        IF i < FirstMismatch(layer, rows) THEN rows[i] ELSE layer[i]]

RowsFit(layer, rows) ==
    LET n == IF Len(layer) < Len(rows) THEN Len(layer) ELSE Len(rows)
    IN  FirstMismatch(layer, rows) = n + 1

\* FeedForwardNet.SetConfiguration: the net afterwards and the error raised
SetConfiguration(net, configs) ==
    IF Len(configs.hidden) # net.hidden \/ Len(configs.output) # net.outputs
    THEN [net |-> net, error |-> "AssertionError"]
    ELSE LET n1 == [net EXCEPT !.hiddenLayer = AssignRows(@, configs.hidden)]
         IN  IF ~RowsFit(net.hiddenLayer, configs.hidden)
             THEN [net |-> n1, error |-> "AssertionError"]
             ELSE [net |-> [n1 EXCEPT !.outputLayer = AssignRows(@, configs.output)],
                   error |-> IF RowsFit(net.outputLayer, configs.output)
                             THEN "none" ELSE "AssertionError"]

\* EvoFFNAnimat.SetGenotype
FFNSetGenotype(net, genome) ==
    LET nih == net.numberInputToHiddenWeights
        cut == IF nih < Len(genome) THEN nih ELSE Len(genome)
        head == SubSeq(genome, 1, cut)
        tail == SubSeq(genome, cut + 1, Len(genome))
        hcols == net.inputs + BiasWeights(net.biasNode)
        ocols == net.hidden + BiasWeights(net.biasNode)
    IN  IF Len(genome) # net.numberWeights
        THEN [net |-> net, error |-> "AssertionError"]
        ELSE IF ~Reshapable(head, net.hidden, hcols)
                  \/ ~Reshapable(tail, net.outputs, ocols)
        THEN [net |-> net, error |-> "ValueError"]
        ELSE SetConfiguration(net, [hidden |-> Reshape(head, net.hidden, hcols),
                                    output |-> Reshape(tail, net.outputs, ocols)])

RECURSIVE Dot(_, _)
\* np.dot of two vectors of the same length
Dot(a, b) ==
    IF a = <<>> THEN 0 ELSE Head(a) * Head(b) + Dot(Tail(a), Tail(b))

WithoutBias(weights, bias) ==
    IF bias THEN SubSeq(weights, 1, Len(weights) - 1) ELSE weights

\* FFNeuron.WeightedSum can be formed when np.dot gets equal lengths
Aligned(weights, bias, values) ==
    Len(WithoutBias(weights, bias)) = Len(values)

\* FFNeuron.WeightedSum; symbolic for values that are sigmoid outputs
WeightedSum(weights, bias, values, symbolic) ==
    IF symbolic THEN [weights |-> weights, values |-> values]
    ELSE Dot(WithoutBias(weights, bias), values)
            + (IF bias THEN weights[Len(weights)] ELSE 0)

\* FeedForwardNet.ActivationFunction
ActivationFunction(net, x) ==
    IF net.sigmoid THEN [sigmoidOf |-> x]
    ELSE IF x > 0 THEN 1 ELSE 0

\* FeedForwardNet.Fire: the net afterwards and the error raised
Fire(net) ==
    LET hiddenOutput ==
            IF net.hiddenLayer = <<>>
            THEN (IF net.hidden = 0 THEN net.inputValues ELSE <<>>)
            ELSE [i \in 1..Len(net.hiddenLayer) |->
                    ActivationFunction(net,
                        WeightedSum(net.hiddenLayer[i], net.biasNode,
                                    net.inputValues, FALSE))]
        symbolic == net.sigmoid /\ net.hiddenLayer # <<>>
        fits == \A i \in 1..Len(net.outputLayer) :
                    Aligned(net.outputLayer[i], net.biasNode, hiddenOutput)
    IN  IF ~fits THEN [net |-> net, error |-> "ValueError"]
        ELSE [net |-> [net EXCEPT !.outputValues =
                         [i \in 1..Len(net.outputLayer) |->
                            ActivationFunction(net,
                                WeightedSum(net.outputLayer[i], net.biasNode,
                                            hiddenOutput, symbolic))]],
              error |-> "none"]

\* the genomes a caller may hand to SetGenotype: any length, recognisable genes
Genomes == UNION {[1..n -> {9}] : n \in 0..MaxGenomeLength}

InputVectors(n) == [1..n -> {-1, 1}]

BrainInit ==
    \E inputs \in 0..MaxInputs, outputs \in 0..MaxOutputs,
       hidden \in 0..MaxHidden, sig \in BOOLEAN, bias \in BOOLEAN,
       seed \in 0..MaxSeed :
        brain = [pc |-> "built", error |-> "none",
                 net |-> AddFFNBrain(hidden, inputs, outputs, sig, bias, seed),
                 before |-> AddFFNBrain(hidden, inputs, outputs, sig, bias, seed),
                 genome |-> <<>>, argument |-> <<>>, roundTrip |-> FALSE]

\* genome = animat.GetGenotype()
BrainGetGenotype ==
    /\ brain.pc = "built"
    /\ brain' = [brain EXCEPT !.pc = "got", !.genome = FFNGetGenotype(brain.net)]
    /\ UNCHANGED <<sim, world, pair, pop, ga, sense, gui, arena>>

\* animat.SetGenotype(genome), with the genome just read
BrainSetGenotypeBack ==
    /\ brain.pc = "got"
    /\ \E r \in {FFNSetGenotype(brain.net, brain.genome)} :
          brain' = [brain EXCEPT !.pc = "set", !.error = r.error, !.net = r.net,
                                 !.before = brain.net,
                                 !.argument = brain.genome, !.roundTrip = TRUE]
    /\ UNCHANGED <<sim, world, pair, pop, ga, sense, gui, arena>>

\* animat.SetGenotype(genome), with a genome from elsewhere
BrainSetGenotype ==
    /\ brain.pc \in {"built", "got"}
    /\ \E g \in Genomes :
        \E r \in {FFNSetGenotype(brain.net, g)} :
          brain' = [brain EXCEPT !.pc = "set", !.error = r.error, !.net = r.net,
                                 !.before = brain.net,
                                 !.argument = g, !.roundTrip = FALSE]
    /\ UNCHANGED <<sim, world, pair, pop, ga, sense, gui, arena>>

\* ffn.SetInputs(v); ffn.Fire()
BrainFire ==
    /\ brain.pc \in {"built", "set"}
    /\ brain.error = "none"
    /\ \E v \in InputVectors(brain.net.inputs) :
        \E n1 \in {[brain.net EXCEPT !.inputValues = v]} :
        \E r \in {Fire(n1)} :
          brain' = [brain EXCEPT !.pc = "fired", !.error = r.error, !.net = r.net,
                                 !.before = n1]
    /\ UNCHANGED <<sim, world, pair, pop, ga, sense, gui, arena>>

InitBrain ==
    /\ BrainInit
    /\ sim = IdleSim /\ world = IdleWorld /\ pair = IdlePair /\ pop = IdlePop
    /\ ga = IdleGA /\ sense = IdleSense /\ gui = IdleGui /\ arena = IdleArena

NextBrain ==
    \/ BrainGetGenotype
    \/ BrainSetGenotypeBack
    \/ BrainSetGenotype
    \/ BrainFire

SpecBrain == InitBrain /\ [][NextBrain]_vars

SetGenotypeDone == brain.pc = "set"

\* C21: GetGenotype returns a genome of numberWeights genes; SetGenotype of
\* the genome just read is accepted and leaves every weight of the hidden and
\* the output layer as it was; SetGenotype of a genome of any other length is
\* rejected and changes no weight.
C21_GenotypeRoundTrip ==
    /\ brain.pc = "got" => Len(brain.genome) = brain.net.numberWeights
    /\ (SetGenotypeDone /\ brain.roundTrip) =>
            /\ brain.error = "none"
            /\ brain.net.hiddenLayer = brain.before.hiddenLayer
            /\ brain.net.outputLayer = brain.before.outputLayer
    /\ (SetGenotypeDone /\ Len(brain.argument) # brain.before.numberWeights) =>
            /\ brain.error # "none"
            /\ brain.net = brain.before

\* what a single-layer perceptron computes for output neuron i
PerceptronOutput(net, i) ==
    ActivationFunction(net,
        WeightedSum(net.outputLayer[i], net.biasNode, net.inputValues, FALSE))

\* C22: a net built with hidden = 0 is a single-layer perceptron: every
\* output neuron holds one weight per input (plus the bias weight),
\* numberWeights counts the weights the output layer holds, and Fire ends
\* without error with one output per output neuron, computed from the input
\* values directly.
C22_ZeroHiddenIsPerceptron ==
    brain.net.hiddenLayer = <<>> =>
        /\ \A i \in 1..Len(brain.net.outputLayer) :
              Len(brain.net.outputLayer[i])
                  = brain.net.inputs + BiasWeights(brain.net.biasNode)
        /\ brain.net.numberWeights = Len(Flatten(brain.net.outputLayer))
        /\ brain.pc = "fired" =>
              /\ brain.error = "none"
              /\ Len(brain.net.outputValues) = brain.net.outputs
              /\ \A i \in 1..brain.net.outputs :
                    brain.net.outputValues[i] = PerceptronOutput(brain.before, i)

(***************************************************************************)
(* World.Remove(T) (core/world/world.py).  The objects of the world are    *)
(* instances of the classes of demos/mouse.py: the first animat is a       *)
(* Mouse, the others plain Animats; the first other object is a Cheese,    *)
(* the others plain WorldObjects.  The call is the last one observed: the  *)
(* world before and after it are kept side by side.                        *)
(***************************************************************************)
Types == {"WorldObject", "Animat", "Mouse", "Cheese"}

ClassOf(o) ==
    IF IsAnimat(o)
    THEN (IF o = 1 THEN "Mouse" ELSE "Animat")
    ELSE (IF o = NumAnimats + 1 THEN "Cheese" ELSE "WorldObject")

\* the class itself and its base classes
Bases(c) ==
    CASE c = "Mouse" -> {"Mouse", "Animat", "WorldObject"}
      [] c = "Animat" -> {"Animat", "WorldObject"}
      [] c = "Cheese" -> {"Cheese", "WorldObject"}
      [] OTHER -> {"WorldObject"}

\* isinstance(o, T)
IsInstance(o, T) == T \in Bases(ClassOf(o))

\* World.Remove(T): the world afterwards and the error raised
WorldRemove(w, T) ==
    IF w.updateInProgress THEN [world |-> w, error |-> "none"]
    ELSE LET Stays(o) == ~(~IsInstance(o, T))
             w1 == [w EXCEPT !.worldobjects = SelectSeq(@, Stays)]
             \* the loop over the animats removes `wo`, the variable of the
             \* loop over the world objects
             woBound == w.worldobjects # <<>>
         IN  IF \E k \in DOMAIN w.animats : ~IsInstance(w.animats[k], T)
             THEN [world |-> w1,
                   error |-> IF woBound THEN "ValueError" ELSE "UnboundLocalError"]
             ELSE [world |-> [w1 EXCEPT !.monitor = SelectSeq(@, Stays)],
                   error |-> "none"]

\* world.Remove(T), between two ticks or from the code of an object that is
\* being updated
Remove ==
    /\ world.pc # "removed"
    /\ \E T \in Types :
        \E r \in {WorldRemove(world, T)} :
          world' = [pc |-> "removed", T |-> T, error |-> r.error,
                    before |-> world, after |-> r.world]
    /\ UNCHANGED <<sim, pair, pop, ga, sense, brain, gui, arena>>

NextRemove == NextWorld \/ Remove

SpecRemove == InitWorld /\ [][NextRemove]_vars

Without(seq, T) ==
    LET NotOfT(o) == ~IsInstance(o, T) IN SelectSeq(seq, NotOfT)

\* C23: Remove(T) called while no update is in progress removes every
\* instance of T from worldobjects, animats and the monitor and leaves every
\* other object in place; called during World.Update it changes nothing.
C23_RemoveTakesOutInstancesOfT ==
    world.pc = "removed" =>
        /\ world.error = "none"
        /\ IF world.before.updateInProgress
           THEN world.after = world.before
           ELSE /\ world.after.worldobjects = Without(world.before.worldobjects, world.T)
                /\ world.after.animats = Without(world.before.animats, world.T)
                /\ world.after.monitor = Without(world.before.monitor, world.T)

(***************************************************************************)
(* A running Simulation with its World, a Group and a Population           *)
(* (core/simulation.py, core/world/world.py, core/evolve/population.py).   *)
(*                                                                         *)
(* sim is the Simulation object as above; the calls one Update or          *)
(* BeginSimulation makes (sim.log) are carried out, in order, on arena:    *)
(* arena.world is the World, arena.pop the Population (SimObject 2), the   *)
(* other SimObjects are Groups; the first Group holds the WorldObjectIds.  *)
(* Population members are Animats with ids above ObjectIds, new ones for   *)
(* every run and generation; the AnimatIds are objects the client or an    *)
(* object's own code constructs during an assessment and hands to          *)
(* World.Add, with or without calling Init() on them first.                *)
(*                                                                         *)
(* arena.isInit are the objects whose Init() has run, arena.detected the   *)
(* animats whose sensor holds a candidate.  History: arena.uninitCalled    *)
(* are the objects the last World.Update called before their Init(),       *)
(* arena.staleAtControl the animats whose Control() found a candidate in   *)
(* a sensor when the last tick was the first of its assessment,            *)
(* arena.firstTickWorld the world as the first tick of the current         *)
(* assessment found it.                                                    *)
(***************************************************************************)
ArenaPopSize == 2
MaxExtras == 1

MemberId(n) == NumAnimats + NumWorldObjects + n

\* the SimObject added last is the Population, the others are Groups
PopulationObject == NumSimObjects

\* Group.members of SimObject i
GroupMembers(i) ==
    IF i = 1 THEN [k \in 1..NumWorldObjects |-> NumAnimats + k] ELSE <<>>

\* [self.Type(*args, **kwargs) for _ in range(self.N)]
\* (the old members are dropped, and their attributes with them)
NewMembers(a) ==
    [a EXCEPT !.pop.members = [k \in 1..a.pop.N |-> MemberId(a.born + k)],
              !.born = @ + a.pop.N,
              !.isInit = @ \ Range(a.pop.members),
              !.detected = @ \ Range(a.pop.members)]

RECURSIVE WorldAddAll(_, _)
\* for member in ...: self.myWorld.Add(member)
WorldAddAll(w, seq) ==
    IF seq = <<>> THEN w ELSE WorldAddAll(WorldAdd(w, Head(seq)), Tail(seq))

\* Group.AddToWorld / Population.AddToWorld
AddToWorld(a, i) ==
    IF i = PopulationObject
    THEN [a EXCEPT !.world = WorldAddAll(@, IF a.pop.teamsize = -1
                                            THEN a.pop.members ELSE a.pop.team)]
    ELSE [a EXCEPT !.world = WorldAddAll(@, GroupMembers(i))]

\* World.Init: Init() on every world object and animat (Animat.Init calls
\* sensor.Init(), which leaves the evaluation function as it is)
WorldInitObjects(a) ==
    [a EXCEPT !.isInit = @ \cup Range(a.world.worldobjects) \cup Range(a.world.animats),
              !.firstTick = TRUE]

\* Mutant: CleanUp clears the world objects only.
WorldCleanUp_KeepAnimats(w) ==
    [w EXCEPT !.worldobjects = <<>>, !.monitor = <<>>]

\* World.CleanUp
WorldCleanUp(w) ==
    [w EXCEPT !.animats = <<>>, !.worldobjects = <<>>, !.monitor = <<>>]

\* an object is constructed and handed to World.Add, after Init() or not
AddExtra(a, init) ==
    LET r == a.extras + 1
    IN  [a EXCEPT !.world = WorldAdd(@, r), !.extras = r,
                  !.isInit = IF init THEN @ \cup {r} ELSE @,
                  !.addedByClient = @ \cup {r}]

\* the objects whose members are in the world for the current assessment
ExpectedObjects(a) ==
    UNION {Range(GroupMembers(i)) : i \in Range(SimContents) \ {PopulationObject}}
        \cup (IF PopulationObject \in Range(SimContents) THEN PopAssessed(a.pop) ELSE {})

\* World.Update.  c.hookAdd: the code of an object adds a new object during
\* the tick; c.detected: the animats whose sensor finds a candidate in the
\* interaction phase.
ArenaWorldUpdate(a, c) ==
    LET w == a.world
        anis == Range(w.animats)
        objs == Range(w.worldobjects) \cup anis
        uninit == objs \ a.isInit
        a1 == [a EXCEPT !.world.updateInProgress = TRUE,
                        !.firstTickWorld =
                            IF a.firstTick
                            THEN [taken |-> TRUE, animats |-> w.animats,
                                  worldobjects |-> w.worldobjects,
                                  queued |-> w.animatQueue \o w.worldobjectQueue,
                                  expected |-> ExpectedObjects(a),
                                  addedByClient |-> a.addedByClient]
                            ELSE @,
                        !.firstTick = FALSE,
                        \* wo.Update(); a.Update(): Control(), ..., sensor.Update()
                        !.uninitCalled = uninit,
                        !.staleAtControl =
                            IF a.firstTick THEN anis \cap a.detected ELSE {},
                        !.detected = @ \ anis]
        a2 == IF c.hookAdd THEN AddExtra(a1, c.hookInit) ELSE a1
    IN  IF uninit # {}
        THEN \* an object without Init() has no attribute `dead` (nor velocity)
             [a1 EXCEPT !.pc = "raised", !.error = "AttributeError"]
        ELSE [a2 EXCEPT !.detected = @ \cup c.detected,
                        !.world = WorldUpdateQueues([@ EXCEPT !.updateInProgress = FALSE])]

\* one call of the Simulation's life cycle, carried out on the arena
ArenaCall(a, call, c) ==
    LET op == call[1]
        i == call[2]
        isPop == i = PopulationObject
    IN  CASE op = "BeginRun" -> IF isPop THEN NewMembers(a) ELSE a
          [] op = "BeginGeneration" ->
                IF isPop THEN [a EXCEPT !.pop.current = 0] ELSE a
          [] op = "BeginAssessment" ->
                IF isPop THEN [a EXCEPT !.pop = PopBeginAssessment(@)] ELSE a
          [] op = "AddToWorld" -> AddToWorld(a, i)
          [] op = "World.Init" -> WorldInitObjects(a)
          [] op = "World.Update" -> ArenaWorldUpdate(a, c)
          \* (the objects the client had added are dropped with the lists)
          [] op = "World.CleanUp" ->
                [a EXCEPT !.world = WorldCleanUp(@), !.addedByClient = {},
                          !.isInit = @ \ AnimatIds, !.detected = @ \ AnimatIds]
          \* member.StoreFitness(); member.Reset(): the sensors are not touched
          [] op = "EndAssessment" -> a
          \* GA.Generate(); members.clear(); members.extend(GA.outputPopulation)
          [] op = "EndGeneration" -> IF isPop THEN NewMembers(a) ELSE a
          [] OTHER -> a

RECURSIVE ArenaRun(_, _, _)
\* the calls of one Update, in order, up to the first that raises
ArenaRun(a, calls, c) ==
    IF calls = <<>> \/ a.pc = "raised" THEN a
    ELSE ArenaRun(ArenaCall(a, Head(calls), c), Tail(calls), c)

NoChoice == [hookAdd |-> FALSE, hookInit |-> FALSE, detected |-> {}]

\* what the objects' own code may do during one tick
TickChoices(a) ==
    LET anis == Range(a.world.animats)
        objs == Range(a.world.worldobjects) \cup anis
        \* in the interaction phase the sensors find a candidate, or none does
        sensing == {{}, {x \in anis : objs \ {x} # {}}}
    IN  {[hookAdd |-> FALSE, hookInit |-> FALSE, detected |-> d] : d \in sensing}
            \cup {[hookAdd |-> TRUE, hookInit |-> n, detected |-> d] :
                     n \in {x \in BOOLEAN : a.extras < MaxExtras}, d \in sensing}

\* Simulation.__init__ with a Group and a Population added
ArenaInit ==
    \E s \in {-1} \cup (1..ArenaPopSize) :
        arena = [pc |-> "constructed", error |-> "none",
                 world |-> [animats |-> <<>>, animatQueue |-> <<>>,
                            worldobjects |-> <<>>, worldobjectQueue |-> <<>>,
                            monitor |-> <<>>, updateInProgress |-> FALSE],
                 pop |-> [N |-> ArenaPopSize,
                          members |-> [k \in 1..ArenaPopSize |-> MemberId(k)],
                          teamsize |-> s, numClones |-> 0,
                          current |-> None, team |-> <<>>],
                 born |-> ArenaPopSize, extras |-> 0,
                 isInit |-> {}, detected |-> {}, firstTick |-> FALSE,
                 addedByClient |-> {}, uninitCalled |-> {}, staleAtControl |-> {},
                 firstTickWorld |-> [taken |-> FALSE, animats |-> <<>>,
                                     worldobjects |-> <<>>, queued |-> <<>>,
                                     expected |-> {}, addedByClient |-> {}]]

\* RunSimulationWithoutRendering: Init(); BeginSimulation()
ArenaBeginSimulation ==
    /\ sim.pc = "constructed"
    /\ \E s1 \in {SimBeginRun([sim EXCEPT !.pc = "running", !.complete = FALSE,
                                          !.Run = 0])} :
          /\ sim' = [s1 EXCEPT !.log = <<>>]
          /\ arena' = [ArenaRun(arena, s1.log, NoChoice) EXCEPT !.pc = "running"]
    /\ UNCHANGED <<world, pair, pop, ga, sense, brain, gui>>

\* RunSimulationWithoutRendering: complete = Update()
ArenaUpdate ==
    /\ sim.pc = "running" /\ arena.pc = "running"
    /\ ~sim.complete
    /\ \E s1 \in {SimUpdateBody(sim)} :
       \E c \in TickChoices(arena) :
       \E a1 \in {ArenaRun(arena, s1.log, c)} :
          /\ arena' = a1
          /\ sim' = IF a1.pc = "raised" THEN sim
                    ELSE [s1 EXCEPT !.log = <<>>, !.returns = <<>>]
    /\ UNCHANGED <<world, pair, pop, ga, sense, brain, gui>>

\* the client constructs an object between two ticks and calls World.Add
ArenaAdd ==
    /\ sim.pc = "running" /\ arena.pc = "running"
    /\ ~sim.complete
    /\ arena.extras < MaxExtras
    /\ \E init \in BOOLEAN : arena' = AddExtra(arena, init)
    /\ UNCHANGED <<sim, world, pair, pop, ga, sense, brain, gui>>

InitArena ==
    /\ SimInit /\ ArenaInit
    /\ world = IdleWorld /\ pair = IdlePair /\ pop = IdlePop
    /\ ga = IdleGA /\ sense = IdleSense /\ brain = IdleBrain /\ gui = IdleGui

NextArena == ArenaBeginSimulation \/ ArenaUpdate \/ ArenaAdd

SpecArena == InitArena /\ [][NextArena]_vars

\* C24: no object of the World receives Update() or takes part in Interact()
\* in World.Update before its Init() has run: not an object added by a
\* SimObject at BeginAssessment, and not an object handed to World.Add
\* during the assessment, inside a tick or between two ticks.
C24_InitBeforeFirstUpdate == arena.uninitCalled = {}

\* C28: the first tick of every assessment finds in the World exactly the
\* objects added for that assessment, each once: the members of every Group
\* and the assessed members of the Population (besides what the client added
\* itself since BeginAssessment), nothing of an earlier assessment, generation
\* or run, and nothing left in the queues.
C28_WorldHoldsTheAssessedOnce ==
    arena.firstTickWorld.taken =>
        LET f == arena.firstTickWorld
            inWorld == f.animats \o f.worldobjects
        IN  /\ f.queued = <<>>
            /\ \A o \in f.expected : OccursIn(inWorld, o) = 1
            /\ Range(inWorld) \subseteq f.expected \cup f.addedByClient

\* the first tick of the second assessment of the second generation of the
\* second run has been made, in team mode, and an object the client added
\* earlier is gone
C28_Witness ==
    /\ arena.firstTickWorld.taken
    /\ ~sim.complete /\ sim.timeSteps = 2
    /\ sim.Run = 1 /\ sim.generation = 1 /\ sim.assessment = 1 /\ sim.timeStep = 1
    /\ arena.pop.teamsize = 1
    /\ arena.extras = 1 /\ 1 \notin Range(arena.world.animats)
    /\ Len(arena.firstTickWorld.animats) = 1

\* C30: when Animat.Update calls Control() in the first tick of an
\* assessment, every sensor of the animat is in its reset state, whether or
\* not the animat took part in an earlier assessment.
C30_SensorsResetAtFirstControl == arena.staleAtControl = {}

\* C27: for every configuration the precondition checks of CalcStats accept
\* (even population size, culling <= popSize - 2, elitism <= popSize -
\* culling), the population has as many members after
\* Population.EndGeneration as it had before it, so that the even-size
\* precondition holds again in the next generation.
C27_PopulationKeepsItsSize ==
    ga.pc = "ended" =>
       /\ Len(ga.members) = Len(ga.before.members)
       /\ Len(ga.members) % 2 = 0

\* C29: in one World.Update, when the two animats are touching in the
\* interaction phase, a.OnCollision(b) and b.OnCollision(a) are each called
\* exactly once and exactly one collision marker is recorded for the pair,
\* whether the animats are solid or not.
C29_OneCollisionPerTouchingPair ==
    (pair.pc = "update1" /\ pair.ticks > 0 /\ pair.touched) =>
       /\ pair.onCollision = <<1, 1>>
       /\ pair.markers = 1

(***************************************************************************)
(* The BeastFrame and its simulation thread (gui/beastframe.py).           *)
(*                                                                         *)
(* gui.main            where the GUI (main) thread is: "idle" between two  *)
(*                     event handlers, "join" inside KillSimulationThread  *)
(*                     at currentThread.join(), "exited" after OnExit.     *)
(* gui.after           what the handler does once join has returned.       *)
(* gui.paused, gui.currentSimulation (is not None), gui.currentThread      *)
(*                     (0 for None) are the attributes of the frame.       *)
(* gui.threads[t]      the t-th thread StartSimulation created, with the   *)
(*                     two Event objects it was given:                     *)
(*   pc    "start" before BeginSimulation, "wait" at pauseEvent.wait(),    *)
(*         "check" at killThread.is_set(), "ready" before Update(),        *)
(*         "update" inside Simulation.Update(), "done" after the loop;     *)
(*   left  the ticks the simulation still has (Update returns complete     *)
(*         at the last one);                                               *)
(*   ticks the Updates finished, afterKill the Updates begun after the     *)
(*         kill flag was set, gatePaused whether the last                  *)
(*         pauseEvent.wait() returned while the frame was paused,          *)
(*         beganPaused whether an Update was then begun with the frame     *)
(*         still paused.                                                   *)
(***************************************************************************)
MaxThreads == 2
MaxGuiTicks == 2

\* the Event objects self.pauseEvent and self.killThread of the frame
CurrentEvents(g) == Len(g.threads)

\* BeastFrame.Pause
Pause(g) ==
    IF ~g.currentSimulation THEN g
    ELSE IF g.paused THEN g
    ELSE [g EXCEPT !.threads[CurrentEvents(g)].pauseEvent = FALSE,
                   !.paused = TRUE]

\* BeastFrame.Unpause
Unpause(g) ==
    IF ~g.currentSimulation THEN g
    ELSE IF ~g.paused THEN g
    ELSE [g EXCEPT !.threads[CurrentEvents(g)].pauseEvent = TRUE,
                   !.paused = FALSE]

\* Mutant: the kill flag is set, but the thread is not woken.
KillSimulationThread_NoUnpause(g, then) ==
    [g EXCEPT !.threads[CurrentEvents(g)].killThread = TRUE,
              !.main = "join", !.after = then]

\* BeastFrame.KillSimulationThread up to self.currentThread.join()
KillSimulationThread(g, then) ==
    [Unpause([g EXCEPT !.threads[CurrentEvents(g)].killThread = TRUE])
        EXCEPT !.main = "join", !.after = then]

\* BeastFrame.DestroyWorldCanvas
DestroyWorldCanvas(g) ==
    [g EXCEPT !.currentSimulation = FALSE, !.currentThread = 0]

\* BeastFrame.StartSimulation from self.currentSimulation = simulation on:
\* new Event objects (both clear) and a new thread, started
StartThread(g, n) ==
    [g EXCEPT !.currentSimulation = TRUE,
              !.threads = Append(@, [pc |-> "start", pauseEvent |-> FALSE,
                                     killThread |-> FALSE, left |-> n,
                                     ticks |-> 0, afterKill |-> 0,
                                     gatePaused |-> FALSE,
                                     beganPaused |-> FALSE]),
              !.currentThread = Len(g.threads) + 1,
              !.main = "idle", !.after = "none", !.length = 0]

\* BeastFrame.__init__
GuiInit ==
    gui = [main |-> "idle", after |-> "none", paused |-> FALSE,
           currentSimulation |-> FALSE, currentThread |-> 0,
           threads |-> <<>>, length |-> 0]

\* OnStartDemo / OnReset: StartSimulation(simulation), for a simulation of
\* n ticks; with a thread around it first goes into KillSimulationThread
StartSimulation ==
    /\ gui.main = "idle"
    /\ Len(gui.threads) < MaxThreads
    /\ \E n \in 1..MaxGuiTicks :
          gui' = IF gui.currentThread # 0
                 THEN [KillSimulationThread(gui, "start") EXCEPT !.length = n]
                 ELSE StartThread(gui, n)
    /\ UNCHANGED <<sim, world, pair, pop, ga, sense, brain, arena>>

\* OnExit
OnExit ==
    /\ gui.main = "idle"
    /\ gui' = IF gui.currentThread # 0 THEN KillSimulationThread(gui, "exit")
              ELSE [gui EXCEPT !.main = "exited"]
    /\ UNCHANGED <<sim, world, pair, pop, ga, sense, brain, arena>>

\* self.currentThread.join() returns when the thread has ended; then
\* DestroyWorldCanvas() and the rest of the handler
JoinReturns ==
    /\ gui.main = "join"
    /\ gui.threads[gui.currentThread].pc = "done"
    /\ \E g1 \in {DestroyWorldCanvas(gui)} :
          gui' = IF gui.after = "start" THEN StartThread(g1, gui.length)
                 ELSE [g1 EXCEPT !.main = "exited", !.after = "none"]
    /\ UNCHANGED <<sim, world, pair, pop, ga, sense, brain, arena>>

\* OnTglPaused, OnSize, OnSave, OnLoad: self.Pause()
OnPause ==
    /\ gui.main = "idle"
    /\ gui' = Pause(gui)
    /\ UNCHANGED <<sim, world, pair, pop, ga, sense, brain, arena>>

\* OnTglResume, OnSave: self.Unpause()
OnUnpause ==
    /\ gui.main = "idle"
    /\ gui' = Unpause(gui)
    /\ UNCHANGED <<sim, world, pair, pop, ga, sense, brain, arena>>

\* RunSimulation: BeginSimulation(); pauseEvent.set(); renderSim.set()
RunSimulationBegin(t) ==
    /\ gui.threads[t].pc = "start"
    /\ gui' = [gui EXCEPT !.threads[t].pc = "wait",
                          !.threads[t].pauseEvent = TRUE]
    /\ UNCHANGED <<sim, world, pair, pop, ga, sense, brain, arena>>

\* RunSimulation: pauseEvent.wait() returns
RunSimulationWait(t) ==
    /\ gui.threads[t].pc = "wait"
    /\ gui.threads[t].pauseEvent
    /\ gui' = [gui EXCEPT !.threads[t].pc = "check",
                          !.threads[t].gatePaused = gui.paused]
    /\ UNCHANGED <<sim, world, pair, pop, ga, sense, brain, arena>>

\* RunSimulation: if killThread.is_set(): break (then worldCanvas.CleanUp())
RunSimulationCheckKill(t) ==
    /\ gui.threads[t].pc = "check"
    /\ gui' = [gui EXCEPT !.threads[t].pc =
                             IF gui.threads[t].killThread THEN "done" ELSE "ready"]
    /\ UNCHANGED <<sim, world, pair, pop, ga, sense, brain, arena>>

\* RunSimulation: self.currentSimulation.Update() is entered
RunSimulationUpdateBegin(t) ==
    /\ gui.threads[t].pc = "ready"
    /\ gui' = [gui EXCEPT !.threads[t].pc = "update",
                          !.threads[t].afterKill =
                              IF gui.threads[t].killThread THEN @ + 1 ELSE @,
                          !.threads[t].beganPaused =
                              @ \/ (gui.paused /\ gui.threads[t].gatePaused)]
    /\ UNCHANGED <<sim, world, pair, pop, ga, sense, brain, arena>>

\* RunSimulation: Update() returns; if complete: break
RunSimulationUpdateEnd(t) ==
    /\ gui.threads[t].pc = "update"
    /\ gui' = [gui EXCEPT !.threads[t].left = @ - 1,
                          !.threads[t].ticks = @ + 1,
                          !.threads[t].pc = IF gui.threads[t].left = 1
                                            THEN "done" ELSE "wait"]
    /\ UNCHANGED <<sim, world, pair, pop, ga, sense, brain, arena>>

\* one step of a simulation thread
RunSimulation ==
    \E t \in DOMAIN gui.threads :
        \/ RunSimulationBegin(t)
        \/ RunSimulationWait(t)
        \/ RunSimulationCheckKill(t)
        \/ RunSimulationUpdateBegin(t)
        \/ RunSimulationUpdateEnd(t)

InitGui ==
    /\ GuiInit
    /\ sim = IdleSim /\ world = IdleWorld /\ pair = IdlePair /\ pop = IdlePop
    /\ ga = IdleGA /\ sense = IdleSense /\ brain = IdleBrain /\ arena = IdleArena

NextGui ==
    \/ StartSimulation
    \/ OnExit
    \/ JoinReturns
    \/ OnPause
    \/ OnUnpause
    \/ RunSimulation

SpecGui == InitGui /\ [][NextGui]_vars

\* The scheduler lets a runnable thread run, Simulation.Update returns, and
\* join returns once the thread has ended.
SpecGuiLive == SpecGui /\ WF_vars(RunSimulation) /\ WF_vars(JoinReturns)

\* the thread is inside Simulation.Update
InUpdate(t) == gui.threads[t].pc = "update"

\* C25: cancelling the simulation thread is cooperative and always
\* completes.  After KillSimulationThread has set the kill flag the thread
\* begins at most one further Update; an Update in progress is left only by
\* returning (its tick is counted); no two threads are inside Update at the
\* same time, a new thread existing only when the old one has ended; and
\* whenever the GUI thread waits in join, join returns.
C25_KillIsCooperativeAndCompletes ==
    /\ [](\A t \in DOMAIN gui.threads :
             /\ gui.threads[t].afterKill <= 1
             /\ \A u \in DOMAIN gui.threads :
                   (u # t /\ gui.threads[u].pc # "done") =>
                       gui.threads[t].pc = "done")
    /\ [][\A t \in DOMAIN gui.threads :
             (InUpdate(t) /\ gui'.threads[t].pc # "update") =>
                 gui'.threads[t].ticks = gui.threads[t].ticks + 1]_vars
    /\ ((gui.main = "join") ~> (gui.main # "join"))

\* The first thread was killed just before it entered an Update, made that
\* one Update and ended; join returned and the second thread is inside
\* Update.
C25_Witness ==
    /\ Len(gui.threads) = 2
    /\ gui.threads[1].killThread
    /\ gui.threads[1].afterKill = 1
    /\ gui.threads[1].pc = "done"
    /\ gui.threads[1].left > 0
    /\ gui.main = "idle"
    /\ InUpdate(2)

\* C26: while BeastFrame.paused is True the simulation thread starts no new
\* Update: its pauseEvent.wait() does not return while the frame is paused,
\* so no Update is begun behind it with the frame still paused.  (An Update
\* whose wait() had returned before Pause counts as in progress.)
C26_PausedStartsNoUpdate ==
    \A t \in DOMAIN gui.threads : ~gui.threads[t].beganPaused

====
